---- MODULE Spec2Model ----
(***************************************************************************)
(* Besemer switch, residual metric and latency-free grid scanner of the    *)
(* lcdm-mcmc repository (src/besemer_core.py, src/scanner.py).             *)
(*                                                                         *)
(* The code computes in numpy float64.  The model computes in IEEE-754     *)
(* binary64 as well: a number is a sign, a 53-bit significand and a binary *)
(* exponent, every operation is the exact result rounded to nearest, ties  *)
(* to even.  Significands do not fit TLC's 32-bit integers, so they are    *)
(* kept as little-endian sequences of 15-bit limbs.                        *)
(***************************************************************************)
EXTENDS Integers, Sequences, FiniteSets, TLC

(***************************************************************************)
(* State.                                                                  *)
(***************************************************************************)
VARIABLES
  switch,           \* the BesemerSwitch object: beta, threshold, epsilon
  residual_arg,     \* the residual of the test in progress
  result,           \* what switch(residual) returned
  resonance,        \* what switch.resonance_strength(residual) returned
  warned,           \* whether switch(residual) divided by zero
  prev,             \* residual, result and resonance of the test before
  pc,               \* where the caller is
  self_data,        \* the data of the metric calls (the scanner's self.data)
  model_arg,        \* the model values of the metric calls
  self_errors,      \* the errors of the metric calls (the scanner's self.errors)
  chi_squared,      \* outcome of compute_chi_squared(data, model, errors)
  residual_norm,    \* outcome of compute_residual_norm(data, model, errors)
  self_model_func,  \* the scanner's model callable ("none": no scanner built)
  grid_points,      \* the scanner's cached (grid1, grid2)
  switch_values,    \* the scanner's cached switch field
  resonance_values, \* the scanner's cached resonance field
  returned,         \* the last call on the scanner and its outcome
  repeated,         \* whether that call repeats the call before it, and
                    \* whether with the same outcome
  planck_scan,      \* what scan_planck_context returned
  supernova_scan,   \* what scan_supernova_context returned
  dipole,           \* outcome of find_dipole_structure
  main_args,        \* the command line of main(), parsed
  analysis,         \* what the analysis started by main() was run with
  self_n_steps,     \* self.n_steps of the ClassicalMCMC at work
  chain,            \* the chain of metropolis_hastings
  step_i,           \* the i of its loop
  proposal,         \* the proposal of its last step
  current_log_prob, \* the log posterior of the last item of the chain
  n_accepted,       \* its count of accepted proposals
  acceptance_rate   \* the rate it returns

(***************************************************************************)
(* Natural numbers of any size: <<l1, ..., ln>> is l1 + l2*B + ... with    *)
(* B = LimbBase, ln # 0; zero is << >>.                                    *)
(***************************************************************************)
LimbBits == 15

LimbBase == 32768

Max2(a, b) == IF a >= b THEN a ELSE b

Min2(a, b) == IF a <= b THEN a ELSE b

RECURSIVE Pow2(_)
Pow2(n) ==
  IF n = 0 THEN 1 ELSE IF n >= 5 THEN 32 * Pow2(n - 5) ELSE 2 * Pow2(n - 1)

RECURSIVE BigNorm(_)
BigNorm(a) ==
  IF a = << >> THEN << >>
  ELSE IF a[Len(a)] = 0 THEN BigNorm(SubSeq(a, 1, Len(a) - 1))
  ELSE a

RECURSIVE BigFromInt(_)
BigFromInt(n) ==
  IF n = 0 THEN << >>
  ELSE <<n % LimbBase>> \o BigFromInt(n \div LimbBase)

BigLimb(a, i) == IF i >= 1 /\ i <= Len(a) THEN a[i] ELSE 0

RECURSIVE BigCmpFrom(_, _, _)
BigCmpFrom(a, b, i) ==
  IF i = 0 THEN 0
  ELSE IF a[i] > b[i] THEN 1
  ELSE IF a[i] < b[i] THEN -1
  ELSE BigCmpFrom(a, b, i - 1)

\* -1, 0, 1 as a < b, a = b, a > b
BigCmp(a, b) ==
  IF Len(a) > Len(b) THEN 1
  ELSE IF Len(a) < Len(b) THEN -1
  ELSE BigCmpFrom(a, b, Len(a))

RECURSIVE BigAddFrom(_, _, _, _)
BigAddFrom(a, b, i, c) ==
  IF i > Len(a) /\ i > Len(b)
  THEN (IF c = 0 THEN << >> ELSE <<c>>)
  ELSE LET s == BigLimb(a, i) + BigLimb(b, i) + c
       IN  <<s % LimbBase>> \o BigAddFrom(a, b, i + 1, s \div LimbBase)

BigAdd(a, b) == BigAddFrom(a, b, 1, 0)

RECURSIVE BigSubFrom(_, _, _, _)
BigSubFrom(a, b, i, c) ==
  IF i > Len(a) THEN << >>
  ELSE LET s == a[i] - BigLimb(b, i) - c
       IN  IF s < 0
           THEN <<s + LimbBase>> \o BigSubFrom(a, b, i + 1, 1)
           ELSE <<s>> \o BigSubFrom(a, b, i + 1, 0)

\* a - b for a >= b
BigSub(a, b) == BigNorm(BigSubFrom(a, b, 1, 0))

RECURSIVE BigMulSmallFrom(_, _, _, _)
BigMulSmallFrom(a, k, i, c) ==
  IF i > Len(a) THEN (IF c = 0 THEN << >> ELSE <<c>>)
  ELSE LET p == a[i] * k + c
       IN  <<p % LimbBase>> \o BigMulSmallFrom(a, k, i + 1, p \div LimbBase)

\* a * k for 0 <= k < LimbBase
BigMulSmall(a, k) == IF k = 0 THEN << >> ELSE BigMulSmallFrom(a, k, 1, 0)

BigShlLimbs(a, n) == IF a = << >> THEN << >> ELSE [i \in 1..n |-> 0] \o a

RECURSIVE BigMulFrom(_, _, _, _)
\* a * (the limbs b[i + 1..] of b) is p: the limbs b[1..i] are still to come
BigMulFrom(a, b, i, p) ==
  IF i = 0 THEN p
  ELSE IF p = << >> THEN BigMulFrom(a, b, i - 1, BigMulSmall(a, b[i]))
  ELSE BigMulFrom(a, b, i - 1, BigAdd(BigMulSmall(a, b[i]), BigShlLimbs(p, 1)))

BigMul(a, b) == IF a = << >> THEN << >> ELSE BigMulFrom(a, b, Len(b), << >>)

RECURSIVE BigDivSmallFrom(_, _, _, _)
BigDivSmallFrom(a, k, i, r) ==
  IF i = 0 THEN << >>
  ELSE LET t == r * LimbBase + a[i]
       IN  BigDivSmallFrom(a, k, i - 1, t % k) \o <<t \div k>>

\* floor(a / k) for 0 < k <= LimbBase
BigDivSmall(a, k) == BigNorm(BigDivSmallFrom(a, k, Len(a), 0))

\* a * 2^n
BigShl(a, n) == BigShlLimbs(BigMulSmall(a, Pow2(n % LimbBits)), n \div LimbBits)

\* floor(a / 2^n)
BigShr(a, n) ==
  IF n \div LimbBits >= Len(a) THEN << >>
  ELSE BigDivSmall(SubSeq(a, n \div LimbBits + 1, Len(a)), Pow2(n % LimbBits))

RECURSIVE IntBitLen(_)
IntBitLen(n) ==
  IF n = 0 THEN 0
  ELSE IF n >= 32 THEN 5 + IntBitLen(n \div 32)
  ELSE 1 + IntBitLen(n \div 2)

BigBitLen(a) ==
  IF a = << >> THEN 0 ELSE LimbBits * (Len(a) - 1) + IntBitLen(a[Len(a)])

BigIsOdd(a) == a # << >> /\ a[1] % 2 = 1

RECURSIVE BigQuotDigit(_, _, _)
\* the largest q <= qhat with q * v <= r
BigQuotDigit(r, v, qhat) ==
  IF BigCmp(BigMulSmall(v, qhat), r) > 0 THEN BigQuotDigit(r, v, qhat - 1)
  ELSE qhat

RECURSIVE BigDivFrom(_, _, _, _, _)
\* long division by v, whose top limb is >= LimbBase / 2: the limbs u[1..i]
\* are still to bring down, r is the running remainder (r < v) and q the
\* quotient limbs found so far
BigDivFrom(u, v, i, r, q) ==
  IF i = 0 THEN [q |-> BigNorm(q), inexact |-> r # << >>]
  ELSE LET r1 == BigNorm(<<u[i]>> \o r)
           n  == Len(v)
           qd == BigQuotDigit(r1, v,
                   Min2(LimbBase - 1,
                        (BigLimb(r1, n + 1) * LimbBase + BigLimb(r1, n)) \div v[n]))
       IN  BigDivFrom(u, v, i - 1, BigSub(r1, BigMulSmall(v, qd)), <<qd>> \o q)

\* floor(a / b) and whether the division left a remainder, for b # 0
BigDivMod(a, b) ==
  LET s  == LimbBits - IntBitLen(b[Len(b)])
      u  == BigShl(a, s)
      v  == BigShl(b, s)
  IN  IF Len(u) < Len(v) THEN [q |-> << >>, inexact |-> u # << >>]
      ELSE BigDivFrom(u, v, Len(u) - Len(v) + 1,
                      SubSeq(u, Len(u) - Len(v) + 2, Len(u)), << >>)

RECURSIVE BigSqrtFrom(_, _, _)
\* Newton's iteration: y is the iterate after x; it ends when y >= x
BigSqrtFrom(n, x, y) ==
  IF BigCmp(y, x) < 0
  THEN BigSqrtFrom(n, y, BigShr(BigAdd(y, BigDivMod(n, y).q), 1))
  ELSE x

\* floor(sqrt(n)), Newton's iteration from a power of two above the root
BigSqrt(n) ==
  IF n = << >> THEN << >>
  ELSE BigSqrtFrom(n, BigShl(<<1>>, (BigBitLen(n) + 1) \div 2 + 1),
                   BigShl(<<1>>, (BigBitLen(n) + 1) \div 2))

(***************************************************************************)
(* numpy float64.  A finite number is (-1)^s * m * 2^e with m below 2^53,  *)
(* kept canonical: m has exactly 53 bits, or fewer bits and e = ExpMin (a  *)
(* subnormal), or m = 0 = s = e.  Infinities and NaN are values of their   *)
(* own, as in numpy, where float64 arithmetic raises no exception.         *)
(***************************************************************************)
MantBits == 53

ExpMin == -1074

ExpMax == 971

FZero == [k |-> "fin", s |-> 0, m |-> << >>, e |-> 0]

FNaN == [k |-> "nan", s |-> 0, m |-> << >>, e |-> 0]

FInf(s) == [k |-> "inf", s |-> s, m |-> << >>, e |-> 0]

FIsZero(a) == a.k = "fin" /\ a.m = << >>

FPack(s, m, e) ==
  IF m = << >> THEN FZero
  ELSE IF e > ExpMax THEN FInf(s)
  ELSE [k |-> "fin", s |-> s, m |-> m, e |-> e]

\* the rounded mantissa q1 at exponent te; rounding up may carry into a
\* bit more than the mantissa holds
FRoundCarry(s, q1, te) ==
  IF BigBitLen(q1) > MantBits
  THEN FPack(s, BigShr(q1, 1), te + 1)
  ELSE FPack(s, q1, te)

\* q = floor(m / 2^sh) rounded to nearest, ties to even: c compares the
\* bits shifted out with one half
FRoundNearest(s, q, c, te, sticky) ==
  FRoundCarry(s, IF c > 0 \/ (c = 0 /\ (sticky \/ BigIsOdd(q)))
                 THEN BigAdd(q, <<1>>) ELSE q, te)

\* (-1)^s * (m + f) * 2^e, with 0 <= f < 1 and f > 0 iff sticky, rounded to
\* nearest, ties to even.  When sticky, m has at least MantBits + 2 bits.
FRound(s, m, e, sticky) ==
  IF m = << >> THEN FZero
  ELSE LET te == Max2(e + BigBitLen(m) - MantBits, ExpMin)
           q  == BigShr(m, te - e)
       IN  IF te <= e THEN FPack(s, BigShl(m, e - te), te)
           ELSE FRoundNearest(s, q,
                  BigCmp(BigSub(m, BigShl(q, te - e)), BigShl(<<1>>, te - e - 1)),
                  te, sticky)

\* a / b * 2^e for natural numbers a, b # 0, correctly rounded
FRatio(s, a, b, e) ==
  IF a = << >> THEN FZero
  ELSE LET sh == Max2(0, MantBits + 2 + BigBitLen(b) - BigBitLen(a))
           Rounded(qr) == FRound(s, qr.q, e - sh, qr.inexact)
       IN  Rounded(BigDivMod(BigShl(a, sh), b))

RECURSIVE BigPow10(_)
BigPow10(d) == IF d = 0 THEN <<1>> ELSE BigMulSmall(BigPow10(d - 1), 10)

\* the float64 of an integer literal n, |n| < 2^31
FInt(n) ==
  FRound(IF n < 0 THEN 1 ELSE 0, BigFromInt(IF n < 0 THEN 0 - n ELSE n), 0, FALSE)

\* the float64 of the decimal literal n * 10^(-d), as Python parses it
\* (correctly rounded)
FDec(n, d) ==
  FRatio(IF n < 0 THEN 1 ELSE 0, BigFromInt(IF n < 0 THEN 0 - n ELSE n),
         BigPow10(d), 0)

FNeg(a) == IF a.k = "nan" \/ FIsZero(a) THEN a ELSE [a EXCEPT !.s = 1 - a.s]

FAbs(a) == IF a.k = "nan" THEN a ELSE [a EXCEPT !.s = 0]

\* -1, 0, 1 as |a| < |b|, |a| = |b|, |a| > |b|, for finite a and b
FCmpMag(a, b) ==
  IF a.m = << >> THEN (IF b.m = << >> THEN 0 ELSE -1)
  ELSE IF b.m = << >> THEN 1
  ELSE IF a.e + BigBitLen(a.m) > b.e + BigBitLen(b.m) THEN 1
  ELSE IF a.e + BigBitLen(a.m) < b.e + BigBitLen(b.m) THEN -1
  ELSE LET lo == Min2(a.e, b.e)
       IN  BigCmp(BigShl(a.m, a.e - lo), BigShl(b.m, b.e - lo))

\* -1, 0, 1 as a < b, a = b, a > b, for a and b not NaN
FCmp(a, b) ==
  IF a.k = "inf" /\ b.k = "inf" THEN (IF a.s = b.s THEN 0 ELSE IF a.s = 1 THEN -1 ELSE 1)
  ELSE IF a.k = "inf" THEN (IF a.s = 1 THEN -1 ELSE 1)
  ELSE IF b.k = "inf" THEN (IF b.s = 1 THEN 1 ELSE -1)
  ELSE IF a.s # b.s THEN (IF a.s = 1 THEN -1 ELSE 1)
  ELSE IF a.s = 1 THEN 0 - FCmpMag(a, b)
  ELSE FCmpMag(a, b)

\* comparisons with a NaN are false, as in IEEE-754
FGe(a, b) == a.k # "nan" /\ b.k # "nan" /\ FCmp(a, b) >= 0

FGt(a, b) == a.k # "nan" /\ b.k # "nan" /\ FCmp(a, b) > 0

FLe(a, b) == FGe(b, a)

FLt(a, b) == FGt(b, a)

FEq(a, b) == a.k # "nan" /\ b.k # "nan" /\ FCmp(a, b) = 0

\* an operand more than 2 * MantBits binary places below the other is less
\* than a quarter of the other's last place: the sum rounds to the other
FAdd(a, b) ==
  IF a.k = "nan" \/ b.k = "nan" THEN FNaN
  ELSE IF a.k = "inf" THEN (IF b.k = "inf" /\ b.s # a.s THEN FNaN ELSE a)
  ELSE IF b.k = "inf" THEN b
  ELSE IF a.m = << >> THEN b
  ELSE IF b.m = << >> THEN a
  ELSE IF a.e - b.e > 2 * MantBits THEN a
  ELSE IF b.e - a.e > 2 * MantBits THEN b
  ELSE LET lo == Min2(a.e, b.e)
           am == BigShl(a.m, a.e - lo)
           bm == BigShl(b.m, b.e - lo)
           c  == BigCmp(am, bm)
       IN  FRound(IF a.s = b.s \/ c >= 0 THEN a.s ELSE b.s,
                  IF a.s = b.s THEN BigAdd(am, bm)
                  ELSE IF c >= 0 THEN BigSub(am, bm) ELSE BigSub(bm, am),
                  lo, FALSE)

FSub(a, b) == FAdd(a, FNeg(b))

FMul(a, b) ==
  IF a.k = "nan" \/ b.k = "nan" THEN FNaN
  ELSE IF a.k = "inf" \/ b.k = "inf"
  THEN (IF FIsZero(a) \/ FIsZero(b) THEN FNaN ELSE FInf((a.s + b.s) % 2))
  ELSE FRound((a.s + b.s) % 2, BigMul(a.m, b.m), a.e + b.e, FALSE)

\* numpy float64 division: x / 0 is inf (nan for 0 / 0) under a
\* RuntimeWarning, not an exception
FDiv(a, b) ==
  IF a.k = "nan" \/ b.k = "nan" THEN FNaN
  ELSE IF a.k = "inf" THEN (IF b.k = "inf" THEN FNaN ELSE FInf((a.s + b.s) % 2))
  ELSE IF b.k = "inf" THEN FZero
  ELSE IF b.m = << >> THEN (IF a.m = << >> THEN FNaN ELSE FInf((a.s + b.s) % 2))
  ELSE FRatio((a.s + b.s) % 2, a.m, b.m, a.e - b.e)

\* numpy sqrt: correctly rounded; nan for a negative argument
FSqrt(a) ==
  IF a.k = "nan" THEN FNaN
  ELSE IF FIsZero(a) THEN FZero
  ELSE IF a.s = 1 THEN FNaN
  ELSE IF a.k = "inf" THEN a
  ELSE LET sh0 == Max2(0, 2 * (MantBits + 2) - BigBitLen(a.m))
           sh  == IF (a.e - sh0) % 2 = 0 THEN sh0 ELSE sh0 + 1
           n   == BigShl(a.m, sh)
           Rounded(r) == FRound(0, r, (a.e - sh) \div 2, BigMul(r, r) # n)
       IN  Rounded(BigSqrt(n))

\* numpy maximum: the larger operand, NaN if either is NaN
FMax(a, b) ==
  IF a.k = "nan" \/ b.k = "nan" THEN FNaN
  ELSE IF FCmp(a, b) >= 0 THEN a ELSE b

\* the next float64 above a finite a > 0
FNextUp(a) == FRound(a.s, BigAdd(a.m, <<1>>), a.e, FALSE)

FOne == FInt(1)

\* Python's None, where a float64 is expected
None == [k |-> "none", s |-> 0, m |-> << >>, e |-> 0]

(***************************************************************************)
(* src/besemer_core.py: BesemerSwitch.  self is the object's fields.       *)
(***************************************************************************)
\* epsilon=1e-10, the default of BesemerSwitch.__init__
DefaultEpsilon == FDec(1, 10)

BesemerSwitch(beta, threshold, epsilon) ==
  [beta |-> beta, threshold |-> threshold, epsilon |-> epsilon]

\* a variant without the floor
residual_unsafe(self, residual) == residual

\* residual_safe = np.maximum(residual, self.epsilon)
residual_safe(self, residual) == FMax(residual, self.epsilon)

\* amplified = self.beta / residual_safe
amplified(self, residual) == FDiv(self.beta, residual_safe(self, residual))

\* a variant with the strict comparison amplified > self.threshold
switch_call_strict(self, residual) ==
  IF FGt(amplified(self, residual), self.threshold) THEN FOne ELSE FZero

\* a variant that returns the amplified value where the comparison holds
switch_call_amplified(self, residual) ==
  IF FGe(amplified(self, residual), self.threshold)
  THEN amplified(self, residual) ELSE FZero

\* BesemerSwitch.__call__: np.where(amplified >= self.threshold, 1, 0)
switch_call(self, residual) ==
  IF FGe(amplified(self, residual), self.threshold) THEN FOne ELSE FZero

\* whether __call__ divides by zero (numpy: RuntimeWarning "divide by zero",
\* a FloatingPointError under np.seterr(divide="raise"))
switch_call_divides_by_zero(self, residual) ==
  FIsZero(residual_safe(self, residual))

\* a variant with the floor added instead: self.beta / (residual + self.epsilon)
resonance_strength_added(self, residual) ==
  FDiv(self.beta, FAdd(residual, self.epsilon))

\* a variant with the operands swapped: residual_safe / self.beta
resonance_strength_swapped(self, residual) ==
  FDiv(FMax(residual, self.epsilon), self.beta)

\* BesemerSwitch.resonance_strength
resonance_strength(self, residual) ==
  FDiv(self.beta, FMax(residual, self.epsilon))

\* heaviside(x): np.where(x >= 0, 1, 0)
heaviside(x) == IF FGe(x, FZero) THEN FOne ELSE FZero

(***************************************************************************)
(* numpy arrays, as far as the code uses them: a 0-d array (a scalar,      *)
(* shape << >>, one item) or a 1-d array (shape <<n>>, n items).           *)
(***************************************************************************)
\* the items of an array are kept as a tuple: each item is computed once,
\* when the array is built
Items(f) == f \o << >>

Scalar(v) == [shape |-> << >>, item |-> <<v>>]

Vector(items) == [shape |-> <<Len(items)>>, item |-> items]

IsScalar(a) == a.shape = << >>

Size(a) == Len(a.item)

\* numpy broadcasting of two arrays of at most one dimension: equal shapes,
\* or one operand a scalar or of length 1; anything else is a ValueError
\* ("operands could not be broadcast together")
CanBroadcast(a, b) ==
  a.shape = b.shape \/ Size(a) = 1 \/ Size(b) = 1

BroadcastShape(a, b) ==
  IF IsScalar(a) THEN b.shape
  ELSE IF IsScalar(b) THEN a.shape
  ELSE IF Size(a) = 1 THEN b.shape
  ELSE a.shape

BroadcastItem(a, i) == IF Size(a) = 1 THEN a.item[1] ELSE a.item[i]

BroadcastSize(a, b) ==
  IF BroadcastShape(a, b) = << >> THEN 1 ELSE BroadcastShape(a, b)[1]

\* a - b, elementwise
ArraySub(a, b) ==
  [shape |-> BroadcastShape(a, b),
   item  |-> Items([i \in 1..BroadcastSize(a, b) |->
                      FSub(BroadcastItem(a, i), BroadcastItem(b, i))])]

\* a / b, elementwise
ArrayDiv(a, b) ==
  [shape |-> BroadcastShape(a, b),
   item  |-> Items([i \in 1..BroadcastSize(a, b) |->
                      FDiv(BroadcastItem(a, i), BroadcastItem(b, i))])]

\* a**2, elementwise (numpy squares by one multiplication)
ArraySquare(a) ==
  [shape |-> a.shape,
   item  |-> Items([i \in 1..Size(a) |-> FMul(a.item[i], a.item[i])])]

RECURSIVE SumFrom(_, _, _)
SumFrom(items, i, acc) ==
  IF i > Len(items) THEN acc ELSE SumFrom(items, i + 1, FAdd(acc, items[i]))

\* np.sum: the items added in index order (numpy's order for arrays of fewer
\* than 8 items); 0.0 for an empty array
ArraySum(a) == SumFrom(a.item, 1, FZero)

(***************************************************************************)
(* src/besemer_core.py: compute_chi_squared, compute_residual_norm.  The   *)
(* outcome of a call is the exception it raises ("none" when it returns)   *)
(* and the value it returns.                                               *)
(***************************************************************************)
Returns(v) == [raises |-> "none", value |-> v]

Raises(exc) == [raises |-> exc, value |-> None]

\* errors=None
NoErrors == [shape |-> <<0>>, item |-> <<None>>]

\* if errors is not None: residual = residual / errors
divide_by_errors(residual, errors) ==
  IF errors = NoErrors THEN Returns(residual)
  ELSE IF ~CanBroadcast(residual, errors) THEN Raises("ValueError")
  ELSE Returns(ArrayDiv(residual, errors))

\* return np.sum(residual**2)
sum_of_squares(residual) ==
  IF residual.raises # "none" THEN residual
  ELSE Returns(ArraySum(ArraySquare(residual.value)))

\* return np.sqrt(np.sum(residual**2))
root_of_sum_of_squares(residual) ==
  IF residual.raises # "none" THEN residual
  ELSE Returns(FSqrt(ArraySum(ArraySquare(residual.value))))

\* a variant that leaves the errors out of the sum
compute_chi_squared_unweighted(data, model, errors) ==
  IF ~CanBroadcast(data, model) THEN Raises("ValueError")
  ELSE Returns(ArraySum(ArraySquare(ArraySub(data, model))))

\* compute_chi_squared(data, model, errors=None):
\*   residual = data - model
\*   if errors is not None: residual = residual / errors
\*   return np.sum(residual**2)
compute_chi_squared(data, model, errors) ==
  IF ~CanBroadcast(data, model) THEN Raises("ValueError")
  ELSE sum_of_squares(divide_by_errors(ArraySub(data, model), errors))

\* a variant that sums the residuals themselves: np.sum(data - model)
compute_residual_norm_signed(data, model, errors) ==
  IF ~CanBroadcast(data, model) THEN Raises("ValueError")
  ELSE Returns(ArraySum(ArraySub(data, model)))

\* compute_residual_norm(data, model, errors=None):
\*   residual = data - model
\*   if errors is not None: residual = residual / errors
\*   return np.sqrt(np.sum(residual**2))
compute_residual_norm(data, model, errors) ==
  IF ~CanBroadcast(data, model) THEN Raises("ValueError")
  ELSE root_of_sum_of_squares(divide_by_errors(ArraySub(data, model), errors))

(***************************************************************************)
(* numpy.linspace and numpy.meshgrid as src/scanner.py calls them.  A 2-d  *)
(* array is its rows: shape <<rows, columns>>, item[row][column].          *)
(***************************************************************************)
Matrix(rows, columns, items) == [shape |-> <<rows, columns>>, item |-> items]

\* np.linspace(start, stop, num) with endpoint=True: a ValueError for
\* num < 0; the items i * step + start with step = (stop - start) / (num - 1)
\* (i / (num - 1) * (stop - start) + start when the step underflows to 0, and
\* the one item start when num = 1); the last item is set to stop
linspace_item(start, delta, step, div, i) ==
  FAdd(FMul(IF div > 0 /\ FIsZero(step) THEN FDiv(FInt(i), FInt(div)) ELSE FInt(i),
            IF div > 0 /\ ~FIsZero(step) THEN step ELSE delta),
       start)

linspace_items(start, stop, num, delta, step) ==
  [raises |-> "none",
   array  |-> Vector(Items([i \in 1..num |->
                IF num > 1 /\ i = num THEN stop
                ELSE linspace_item(start, delta, step, num - 1, i - 1)]))]

\* a variant with the step of an interval open at its end: delta / num
linspace_steps_open(start, stop, num, delta) ==
  linspace_items(start, stop, num, delta,
                 IF num > 1 THEN FDiv(delta, FInt(num)) ELSE FNaN)

linspace_steps(start, stop, num, delta) ==
  linspace_items(start, stop, num, delta,
                 IF num > 1 THEN FDiv(delta, FInt(num - 1)) ELSE FNaN)

linspace(start, stop, num) ==
  IF num < 0 THEN [raises |-> "ValueError", array |-> Vector(<< >>)]
  ELSE linspace_steps(start, stop, num, FSub(stop, start))

\* grid1, grid2 = np.meshgrid(param1, param2), indexing "xy": both of shape
\* (len(param2), len(param1)), grid1[j, i] = param1[i], grid2[j, i] = param2[j]
meshgrid1(param1, param2) ==
  Matrix(Size(param2), Size(param1),
         Items([j \in 1..Size(param2) |->
                  Items([i \in 1..Size(param1) |-> param1.item[i]])]))

meshgrid2(param1, param2) ==
  Matrix(Size(param2), Size(param1),
         Items([j \in 1..Size(param2) |->
                  Items([i \in 1..Size(param1) |-> param2.item[j]])]))

\* np.zeros_like(grid)
zeros_like(grid) ==
  Matrix(grid.shape[1], grid.shape[2],
         Items([j \in 1..grid.shape[1] |->
                  Items([i \in 1..grid.shape[2] |-> FZero])]))

\* np.zeros(n)
zeros(n) == Vector(Items([i \in 1..n |-> FZero]))

(***************************************************************************)
(* The model callables handed to the scanner.  The scanner knows nothing   *)
(* of them; these are the ones of test_scanner and example_notebook.py,    *)
(* and a two-parameter one.  A call with the wrong number of arguments is  *)
(* Python's TypeError.                                                     *)
(***************************************************************************)
\* test_scanner: def model_func(x): return x**2
\* example_notebook.py: def model_func(x): return np.array([x**2])
\* two parameters: def model_func(a, b): return np.array([a, b])
\* callables that reject arguments outside their domain:
\*   def model_func(x): if x > 2: raise ValueError; return np.array([x**2])
\*   def model_func(a, b): if a > 300: raise ValueError; return np.array([a, b])
model_call(model_func, args) ==
  CASE model_func = "square" ->
         IF Len(args) # 1 THEN [raises |-> "TypeError", value |-> Vector(<< >>)]
         ELSE [raises |-> "none", value |-> Scalar(FMul(args[1], args[1]))]
    [] model_func = "square_array" ->
         IF Len(args) # 1 THEN [raises |-> "TypeError", value |-> Vector(<< >>)]
         ELSE [raises |-> "none", value |-> Vector(<<FMul(args[1], args[1])>>)]
    [] model_func = "pair" ->
         IF Len(args) # 2 THEN [raises |-> "TypeError", value |-> Vector(<< >>)]
         ELSE [raises |-> "none", value |-> Vector(<<args[1], args[2]>>)]
    [] model_func = "checked_square" ->
         IF Len(args) # 1 THEN [raises |-> "TypeError", value |-> Vector(<< >>)]
         ELSE IF FGt(args[1], FInt(2))
         THEN [raises |-> "ValueError", value |-> Vector(<< >>)]
         ELSE [raises |-> "none", value |-> Vector(<<FMul(args[1], args[1])>>)]
    [] model_func = "checked_pair" ->
         IF Len(args) # 2 THEN [raises |-> "TypeError", value |-> Vector(<< >>)]
         ELSE IF FGt(args[1], FInt(300))
         THEN [raises |-> "ValueError", value |-> Vector(<< >>)]
         ELSE [raises |-> "none", value |-> Vector(<<args[1], args[2]>>)]

(***************************************************************************)
(* src/scanner.py: LatencyFreeScanner.  self is the object's fields        *)
(* model_func, data, errors, switch; the cached grid_points, switch_values *)
(* and resonance_values are state variables.                               *)
(***************************************************************************)
LatencyFreeScanner(model_func, data, errors, sw) ==
  [model_func |-> model_func, data |-> data, errors |-> errors, switch |-> sw]

\* one pass of the loop body of scan_1d and of scan_2d:
\*   model = self.model_func(...)
\*   residual = compute_residual_norm(self.data, model, self.errors)
\*   ... = self.switch(residual)
\*   ... = self.switch.resonance_strength(residual)
PointRaises(exc) ==
  [raises |-> exc, residual |-> None, switch |-> None, resonance |-> None]

\* switches[i] = self.switch(residual)
\* resonances[i] = self.switch.resonance_strength(residual)
evaluate_residual(self, residual) ==
  IF residual.raises # "none" THEN PointRaises(residual.raises)
  ELSE [raises    |-> "none",
        residual  |-> residual.value,
        switch    |-> switch_call(self.switch, residual.value),
        resonance |-> resonance_strength(self.switch, residual.value)]

\* residual = compute_residual_norm(self.data, model, self.errors)
evaluate_model(self, model) ==
  IF model.raises # "none" THEN PointRaises(model.raises)
  ELSE evaluate_residual(self,
         compute_residual_norm(self.data, model.value, self.errors))

\* a variant that passes the parameters in reverse order
evaluate_point_reversed(self, args) ==
  evaluate_model(self, model_call(self.model_func,
                                  [i \in 1..Len(args) |-> args[Len(args) + 1 - i]]))

\* model = self.model_func(...)
evaluate_point(self, args) ==
  evaluate_model(self, model_call(self.model_func, args))

\* a scan that raises returns nothing.  calls counts the calls of
\* self.model_func the scan made, and writes the assignments to each index
\* of switches
Scan1DRaises(exc, calls) ==
  [raises |-> exc, params |-> Vector(<< >>), switches |-> Vector(<< >>),
   resonances |-> Vector(<< >>), residuals |-> Vector(<< >>),
   writes |-> << >>, calls |-> calls]

RECURSIVE scan_1d_loop(_, _, _, _)
\* a variant that puts nothing in the place of a point whose evaluation
\* raised and goes on
scan_1d_store_continuing(self, params, i, fields, point) ==
  IF point.raises # "none"
  THEN scan_1d_loop(self, params, i + 1, [fields EXCEPT !.calls = @ + 1])
  ELSE scan_1d_loop(self, params, i + 1,
         [switches   |-> [fields.switches EXCEPT ![i] = point.switch],
          resonances |-> [fields.resonances EXCEPT ![i] = point.resonance],
          residuals  |-> [fields.residuals EXCEPT ![i] = point.residual],
          writes     |-> [fields.writes EXCEPT ![i] = @ + 1],
          calls      |-> fields.calls + 1])

\* the assignments of one pass of the loop, then the passes after it
scan_1d_store(self, params, i, fields, point) ==
  IF point.raises # "none" THEN Scan1DRaises(point.raises, fields.calls + 1)
  ELSE scan_1d_loop(self, params, i + 1,
         [switches   |-> [fields.switches EXCEPT ![i] = point.switch],
          resonances |-> [fields.resonances EXCEPT ![i] = point.resonance],
          residuals  |-> [fields.residuals EXCEPT ![i] = point.residual],
          writes     |-> [fields.writes EXCEPT ![i] = @ + 1],
          calls      |-> fields.calls + 1])

\* for i, param in enumerate(params): ...; return params, switches, resonances
\* (residuals: the residual handed to the switch at each index)
scan_1d_loop(self, params, i, fields) ==
  IF i > Size(params)
  THEN [raises |-> "none", params |-> params,
        switches |-> Vector(fields.switches),
        resonances |-> Vector(fields.resonances),
        residuals |-> Vector(fields.residuals),
        writes |-> fields.writes, calls |-> fields.calls]
  ELSE scan_1d_store(self, params, i, fields,
                     evaluate_point(self, <<params.item[i]>>))

\* switches = np.zeros(n_points); resonances = np.zeros(n_points); the loop
scan_1d_params(self, n_points, params) ==
  IF params.raises # "none" THEN Scan1DRaises(params.raises, 0)
  ELSE scan_1d_loop(self, params.array, 1,
         [switches   |-> zeros(n_points).item,
          resonances |-> zeros(n_points).item,
          residuals  |-> zeros(n_points).item,
          writes     |-> Items([i \in 1..n_points |-> 0]),
          calls      |-> 0])

\* LatencyFreeScanner.scan_1d(param_range, n_points)
scan_1d(self, param_range, n_points) ==
  scan_1d_params(self, n_points,
                 linspace(param_range[1], param_range[2], n_points))

Scan2DRaises(exc, calls) ==
  [raises |-> exc, grid1 |-> Matrix(0, 0, << >>), grid2 |-> Matrix(0, 0, << >>),
   switches |-> Matrix(0, 0, << >>), resonances |-> Matrix(0, 0, << >>),
   residuals |-> Matrix(0, 0, << >>), writes |-> << >>, calls |-> calls]

RECURSIVE scan_2d_inner(_, _, _, _, _, _, _)
\* the assignments of one pass of the inner loop, then the passes after it
scan_2d_store(self, n_points, grid1, grid2, i, j, fields, point) ==
  IF point.raises # "none"
  THEN [fields EXCEPT !.raises = point.raises, !.calls = @ + 1]
  ELSE scan_2d_inner(self, n_points, grid1, grid2, i, j + 1,
         [raises     |-> "none",
          switches   |-> [fields.switches EXCEPT ![j][i] = point.switch],
          resonances |-> [fields.resonances EXCEPT ![j][i] = point.resonance],
          residuals  |-> [fields.residuals EXCEPT ![j][i] = point.residual],
          writes     |-> [fields.writes EXCEPT ![j][i] = @ + 1],
          calls      |-> fields.calls + 1])

\* a variant whose inner loop ends one pass early
scan_2d_inner_short(self, n_points, grid1, grid2, i, j, fields) ==
  IF j >= n_points[2] THEN fields
  ELSE IF j > grid1.shape[1] \/ i > grid1.shape[2]
  THEN [fields EXCEPT !.raises = "IndexError"]
  ELSE scan_2d_store(self, n_points, grid1, grid2, i, j, fields,
         evaluate_point(self, <<grid1.item[j][i], grid2.item[j][i]>>))

\* for j in range(n_points[1]):
\*   model = self.model_func(grid1[j, i], grid2[j, i]); ...; switches[j, i] = ...
\* at one i; fields holds the arrays being filled and the exception raised.
\* An index outside the grid is numpy's IndexError
scan_2d_inner(self, n_points, grid1, grid2, i, j, fields) ==
  IF j > n_points[2] THEN fields
  ELSE IF j > grid1.shape[1] \/ i > grid1.shape[2]
  THEN [fields EXCEPT !.raises = "IndexError"]
  ELSE scan_2d_store(self, n_points, grid1, grid2, i, j, fields,
         evaluate_point(self, <<grid1.item[j][i], grid2.item[j][i]>>))

RECURSIVE scan_2d_loop(_, _, _, _, _, _)
\* for i in range(n_points[0]): for j in range(n_points[1]): ...
\* (residuals: the residual handed to the switch at each index)
scan_2d_loop(self, n_points, grid1, grid2, i, fields) ==
  IF fields.raises # "none" THEN Scan2DRaises(fields.raises, fields.calls)
  ELSE IF i > n_points[1]
  THEN [raises |-> "none", grid1 |-> grid1, grid2 |-> grid2,
        switches   |-> Matrix(grid1.shape[1], grid1.shape[2], fields.switches),
        resonances |-> Matrix(grid1.shape[1], grid1.shape[2], fields.resonances),
        residuals  |-> Matrix(grid1.shape[1], grid1.shape[2], fields.residuals),
        writes |-> fields.writes, calls |-> fields.calls]
  ELSE scan_2d_loop(self, n_points, grid1, grid2, i + 1,
                    scan_2d_inner(self, n_points, grid1, grid2, i, 1, fields))

\* switches = np.zeros_like(grid1); resonances = np.zeros_like(grid1); the loops
scan_2d_grids(self, n_points, grid1, grid2) ==
  scan_2d_loop(self, n_points, grid1, grid2, 1,
               [raises     |-> "none",
                switches   |-> zeros_like(grid1).item,
                resonances |-> zeros_like(grid1).item,
                residuals  |-> zeros_like(grid1).item,
                writes     |-> Items([j \in 1..grid1.shape[1] |->
                                        Items([i \in 1..grid1.shape[2] |-> 0])]),
                calls      |-> 0])

\* grid1, grid2 = np.meshgrid(param1, param2)
scan_2d_params(self, n_points, param1, param2) ==
  IF param1.raises # "none" THEN Scan2DRaises(param1.raises, 0)
  ELSE IF param2.raises # "none" THEN Scan2DRaises(param2.raises, 0)
  ELSE scan_2d_grids(self, n_points, meshgrid1(param1.array, param2.array),
                     meshgrid2(param1.array, param2.array))

\* LatencyFreeScanner.scan_2d(param1_range, param2_range, n_points), up to
\* the assignments to self
scan_2d(self, param1_range, param2_range, n_points) ==
  scan_2d_params(self, n_points,
                 linspace(param1_range[1], param1_range[2], n_points[1]),
                 linspace(param2_range[1], param2_range[2], n_points[2]))

switch_vars == <<switch, residual_arg, result, resonance, warned, prev>>

metric_vars == <<self_data, model_arg, self_errors, chi_squared, residual_norm>>

scanner_vars == <<self_model_func, grid_points, switch_values, resonance_values,
                  returned, repeated>>

dipole_vars == <<planck_scan, supernova_scan, dipole>>

main_vars == <<main_args, analysis>>

mcmc_vars == <<self_n_steps, chain, step_i, proposal, current_log_prob, n_accepted,
               acceptance_rate>>

extra_vars == <<dipole_vars, main_vars, mcmc_vars>>

vars == <<switch, residual_arg, result, resonance, warned, prev, pc,
          self_data, model_arg, self_errors, chi_squared, residual_norm,
          self_model_func, grid_points, switch_values, resonance_values, returned,
          repeated, planck_scan, supernova_scan, dipole, main_args, analysis,
          self_n_steps, chain, step_i, proposal, current_log_prob, n_accepted,
          acceptance_rate>>

\* self.grid_points = None and the like
NoField == [shape |-> << >>, item |-> << >>]

NoScan == [call |-> "none"]

\* find_manifold raises before it returns anything
ManifoldRaises(exc) ==
  [raises |-> exc, manifold_param1 |-> Vector(<< >>), manifold_param2 |-> Vector(<< >>)]

\* a variant that keeps the cells whose switch value is not 1
mask_inverted(values) ==
  Matrix(values.shape[1], values.shape[2],
         Items([r \in 1..values.shape[1] |->
                  Items([c \in 1..values.shape[2] |->
                           ~FEq(values.item[r][c], FOne)])]))

\* mask = self.switch_values == 1
mask(values) ==
  Matrix(values.shape[1], values.shape[2],
         Items([r \in 1..values.shape[1] |->
                  Items([c \in 1..values.shape[2] |->
                           FEq(values.item[r][c], FOne)])]))

RECURSIVE boolean_index_row(_, _, _)
\* the items of one row at which the mask is True, from column c on
boolean_index_row(row, flags, c) ==
  IF c > Len(row) THEN << >>
  ELSE (IF flags[c] THEN <<row[c]>> ELSE << >>) \o boolean_index_row(row, flags, c + 1)

RECURSIVE boolean_index_rows(_, _, _)
\* the items at which the mask is True, row after row from row r on
boolean_index_rows(grid, flags, r) ==
  IF r > grid.shape[1] THEN << >>
  ELSE boolean_index_row(grid.item[r], flags.item[r], 1)
         \o boolean_index_rows(grid, flags, r + 1)

\* grid[mask] for a boolean mask of the grid's shape: a 1-d array of the
\* items at which the mask is True, in row-major order
boolean_index(grid, flags) == Vector(boolean_index_rows(grid, flags, 1))

\* manifold_param1 = grid1[mask]; manifold_param2 = grid2[mask]; a mask of
\* another shape than the grid is numpy's IndexError
find_manifold_masked(grid1, grid2, flags) ==
  IF grid1.shape # flags.shape \/ grid2.shape # flags.shape
  THEN ManifoldRaises("IndexError")
  ELSE [raises |-> "none", manifold_param1 |-> boolean_index(grid1, flags),
        manifold_param2 |-> boolean_index(grid2, flags)]

\* a variant that returns an empty manifold where no scan_2d has been run
find_manifold_unguarded(values, grids) ==
  IF values = NoField
  THEN [raises |-> "none", manifold_param1 |-> Vector(<< >>),
        manifold_param2 |-> Vector(<< >>)]
  ELSE find_manifold_masked(grids[1], grids[2], mask(values))

\* LatencyFreeScanner.find_manifold(), reading self.switch_values and
\* self.grid_points
find_manifold(values, grids) ==
  IF values = NoField THEN ManifoldRaises("ValueError")
  ELSE find_manifold_masked(grids[1], grids[2], mask(values))

(***************************************************************************)
(* src/scanner.py: LatencyFreeScanner.analyze_geometry.  The dict it       *)
(* returns is a function of its keys.                                      *)
(***************************************************************************)
RECURSIVE LaneFrom(_, _, _, _, _)
\* r[k] += a[i + k] for i = 8, 16, ...: lane k of numpy's unrolled loop
LaneFrom(items, k, j, blocks, acc) ==
  IF j >= blocks THEN acc
  ELSE LaneFrom(items, k, j + 1, blocks, FAdd(acc, items[k + 8 * j]))

RECURSIVE TreeSum(_)
\* ((r[0] + r[1]) + (r[2] + r[3])) + ((r[4] + r[5]) + (r[6] + r[7]))
TreeSum(r) ==
  IF Len(r) = 1 THEN r[1]
  ELSE FAdd(TreeSum(SubSeq(r, 1, Len(r) \div 2)),
            TreeSum(SubSeq(r, Len(r) \div 2 + 1, Len(r))))

\* np.add.reduce over a float64 vector of at most 128 items: in index order
\* below 8 items, else eight lanes, their sums added as a tree, then the
\* items past the last multiple of 8
pairwise_sum(items) ==
  IF Len(items) < 8 THEN SumFrom(items, 1, FZero)
  ELSE SumFrom(items, Len(items) - (Len(items) % 8) + 1,
               TreeSum(Items([k \in 1..8 |->
                         LaneFrom(items, k, 1, Len(items) \div 8, items[k])])))

\* np.mean(a): the sum divided by the number of items
np_mean(a) == FDiv(pairwise_sum(a.item), FInt(Size(a)))

\* np.std(a) about the mean it computed: sqrt(sum((a - mean)**2) / n)
np_std_about(a, mean) ==
  FSqrt(FDiv(pairwise_sum(ArraySquare(ArraySub(a, Scalar(mean))).item),
             FInt(Size(a))))

np_std(a) == np_std_about(a, np_mean(a))

\* np.sum(mask): the number of True cells
count_true(flags) ==
  Cardinality({ cell \in (1..flags.shape[1]) \X (1..flags.shape[2]) :
                  flags.item[cell[1]][cell[2]] })

\* a variant that adds the moments whatever the manifold's length
with_moments_always(found, manifold_param1, manifold_param2) ==
  found @@ [param1_mean |-> np_mean(manifold_param1),
             param1_std  |-> np_std(manifold_param1),
             param2_mean |-> np_mean(manifold_param2),
             param2_std  |-> np_std(manifold_param2)]

\* if len(manifold_param1) > 0: result['param1_mean'] = ...; ...
with_moments(found, manifold_param1, manifold_param2) ==
  IF Size(manifold_param1) > 0
  THEN found @@ [param1_mean |-> np_mean(manifold_param1),
                  param1_std  |-> np_std(manifold_param1),
                  param2_mean |-> np_mean(manifold_param2),
                  param2_std  |-> np_std(manifold_param2)]
  ELSE found

\* analyze_geometry raises before it returns anything
GeometryRaises(exc) == [raises |-> exc, result |-> << >>]

\* fraction = n_resonant / total; manifold_param1, manifold_param2 =
\* self.find_manifold(); result = {...}
analyze_geometry_counted(n_resonant, total, manifold) ==
  IF manifold.raises # "none" THEN GeometryRaises(manifold.raises)
  ELSE [raises |-> "none",
        result |->
          with_moments([n_resonant_points  |-> n_resonant,
                        total_points       |-> total,
                        resonance_fraction |-> FDiv(FInt(n_resonant), FInt(total)),
                        manifold_size      |-> Size(manifold.manifold_param1)],
                       manifold.manifold_param1, manifold.manifold_param2)]

\* LatencyFreeScanner.analyze_geometry(), reading self.switch_values and
\* self.grid_points
analyze_geometry(values, grids) ==
  IF values = NoField THEN GeometryRaises("ValueError")
  ELSE analyze_geometry_counted(count_true(mask(values)),
                                values.shape[1] * values.shape[2],
                                find_manifold(values, grids))

(***************************************************************************)
(* src/hubble_dipole.py: HubbleDipoleAnalyzer.  A tuple is kept apart from *)
(* None by its kind, as the floats are.                                    *)
(***************************************************************************)
Tuple(items) == [k |-> "tuple", item |-> items]

\* a numpy integer, kept apart from None in the same way
np_int64(n) == [k |-> "int", n |-> n]

\* np.any(mask)
np_any(flags) == count_true(flags) > 0

\* a variant that takes the means whatever the mask holds
find_pole_always(flags, selected) ==
  IF selected.raises # "none" THEN [raises |-> selected.raises, pole |-> None]
  ELSE [raises |-> "none",
        pole   |-> Tuple(<<np_mean(selected.manifold_param1),
                           np_mean(selected.manifold_param2)>>)]

\* if np.any(mask): result[pole] = (np.mean(grid_H0[mask]),
\* np.mean(grid_Om0[mask])); the pole stays None otherwise, and the grids
\* are not indexed
find_pole(flags, selected) ==
  IF ~np_any(flags) THEN [raises |-> "none", pole |-> None]
  ELSE IF selected.raises # "none" THEN [raises |-> selected.raises, pole |-> None]
  ELSE [raises |-> "none",
        pole   |-> Tuple(<<np_mean(selected.manifold_param1),
                           np_mean(selected.manifold_param2)>>)]

\* a variant without the square root
np_linalg_norm_squared(x) == FAdd(FMul(x[1], x[1]), FMul(x[2], x[2]))

\* np.linalg.norm(x) of a 1-d float64 array of two items: sqrt(x.dot(x)),
\* the dot product taken as x[0] * x[0] + x[1] * x[1], each step rounded
np_linalg_norm(x) == FSqrt(FAdd(FMul(x[1], x[1]), FMul(x[2], x[2])))

\* np.arctan2(delta[1], delta[0]) * 180 / np.pi: kept as the angle of the
\* vector it is taken of, not evaluated
dipole_angle_of(delta) == [k |-> "degrees", of |-> delta]

\* np.sum((planck_switches == 1) & (supernova_switches == 1)); it is
\* reached with both masks of the shape of the grid only
overlap_of(planck_flags, supernova_flags) ==
  Cardinality({ cell \in (1..planck_flags.shape[1]) \X (1..planck_flags.shape[2]) :
                  /\ planck_flags.item[cell[1]][cell[2]]
                  /\ supernova_flags.item[cell[1]][cell[2]] })

\* delta = p2 - p1 and the three properties taken of it
dipole_between(p1, p2, delta, overlap) ==
  [planck_pole     |-> p1,
   supernova_pole  |-> p2,
   dipole_distance |-> np_linalg_norm(delta),
   dipole_angle    |-> dipole_angle_of(delta),
   overlap         |-> overlap]

\* if result['planck_pole'] and result['supernova_pole']: a tuple of two
\* floats is true whatever the floats are, None is false
dipole_of_poles(p1, p2, planck_flags, supernova_flags) ==
  IF p1 # None /\ p2 # None
  THEN dipole_between(p1, p2,
                      <<FSub(p2.item[1], p1.item[1]), FSub(p2.item[2], p1.item[2])>>,
                      np_int64(overlap_of(planck_flags, supernova_flags)))
  ELSE [planck_pole |-> p1, supernova_pole |-> p2, dipole_distance |-> None,
        dipole_angle |-> None, overlap |-> None]

DipoleRaises(exc) == [raises |-> exc, result |-> << >>]

\* the planck pole first, then the supernova pole, then the rest
find_dipole_poles(planck_flags, supernova_flags, planck_pole, supernova_pole) ==
  IF planck_pole.raises # "none" THEN DipoleRaises(planck_pole.raises)
  ELSE IF supernova_pole.raises # "none" THEN DipoleRaises(supernova_pole.raises)
  ELSE [raises |-> "none",
        result |-> dipole_of_poles(planck_pole.pole, supernova_pole.pole,
                                   planck_flags, supernova_flags)]

find_dipole_masked(planck_flags, supernova_flags, grid_H0, grid_Om0) ==
  find_dipole_poles(planck_flags, supernova_flags,
                    find_pole(planck_flags,
                              find_manifold_masked(grid_H0, grid_Om0, planck_flags)),
                    find_pole(supernova_flags,
                              find_manifold_masked(grid_H0, grid_Om0, supernova_flags)))

\* HubbleDipoleAnalyzer.find_dipole_structure(planck_switches,
\* supernova_switches, grid_H0, grid_Om0)
find_dipole_structure(planck_switches, supernova_switches, grid_H0, grid_Om0) ==
  find_dipole_masked(mask(planck_switches), mask(supernova_switches),
                     grid_H0, grid_Om0)

\* a switch field of the shape of a grid: cell number n of the grid, rows
\* first, holds bit n of bits
SwitchField(grid, bits) ==
  Matrix(grid.shape[1], grid.shape[2],
         Items([r \in 1..grid.shape[1] |->
                  Items([c \in 1..grid.shape[2] |->
                           IF (bits \div Pow2((r - 1) * grid.shape[2] + c - 1)) % 2 = 1
                           THEN FOne ELSE FZero])]))

\* what scan_planck_context and scan_supernova_context return: grid_H0,
\* grid_Om0 and switches of scanner.scan_2d(H0_range, Om0_range, n_points)
context_scan(grid_H0, grid_Om0, switches) ==
  [raises |-> "none", grid_H0 |-> grid_H0, grid_Om0 |-> grid_Om0,
   switches |-> switches]

\* grid1, grid2 = np.meshgrid(param1, param2) of scan_2d
context_grids(param1, param2) ==
  [grid_H0  |-> meshgrid1(param1.array, param2.array),
   grid_Om0 |-> meshgrid2(param1.array, param2.array)]

\* no scanner built
NoScanner ==
  /\ self_model_func = "none"
  /\ grid_points = <<NoField, NoField>>
  /\ switch_values = NoField
  /\ resonance_values = NoField
  /\ returned = NoScan
  /\ repeated = "first"

\* no scan of a context and no find_dipole_structure yet
NoContextScan == [raises |-> "not called"]

NoDipole == [raises |-> "not called"]

NoAnalyzer ==
  /\ planck_scan = NoContextScan
  /\ supernova_scan = NoContextScan
  /\ dipole = NoDipole

\* main() not started
NoMain ==
  /\ main_args = << >>
  /\ analysis = << >>

\* no ClassicalMCMC at work
NoSampler ==
  /\ self_n_steps = 0
  /\ chain = << >>
  /\ step_i = 0
  /\ proposal = None
  /\ current_log_prob = None
  /\ n_accepted = 0
  /\ acceptance_rate = None

NoTest == [residual |-> None, result |-> None, resonance |-> None]

NoCall == [raises |-> "not called", value |-> None]

NoArray == Vector(<< >>)

(***************************************************************************)
(* The switch on its own, called as test_switch calls it: for a residual,  *)
(* switch(residual) and then switch.resonance_strength(residual).          *)
(***************************************************************************)
\* test_switch: BesemerSwitch(beta=296, threshold=100.0)
TestSwitch == BesemerSwitch(FInt(296), FInt(100), DefaultEpsilon)

\* the defaults: beta=296, threshold=1.0, epsilon=1e-10
DefaultSwitch == BesemerSwitch(FInt(296), FInt(1), DefaultEpsilon)

\* the switches under test: the two above; thresholds whose crossing
\* beta / threshold is not a float64; a floor above the crossing
\* (beta / epsilon < threshold); beta = 0 and beta < 0
Switches ==
  { TestSwitch, DefaultSwitch,
    BesemerSwitch(FInt(296), FInt(27), DefaultEpsilon),
    BesemerSwitch(FInt(296), FInt(33), DefaultEpsilon),
    BesemerSwitch(FInt(296), FMul(FInt(10000000), FInt(1000000)), DefaultEpsilon),
    BesemerSwitch(FInt(1), FInt(100), FDec(5, 1)),
    BesemerSwitch(FInt(1), FInt(1), FDec(5, 1)),
    BesemerSwitch(FZero, FInt(1), DefaultEpsilon),
    BesemerSwitch(FInt(-2), FInt(1), DefaultEpsilon) }

\* the residuals of test_switch (0.001, 2.0, 2.96, 10.0), the residual 2.97
\* past the crossing, zero, residuals below and at the floors, neighbouring
\* float64s, the crossings 296/27 and 296/33 as float64s, negative residuals
Residuals ==
  { FDec(1, 3), FInt(2), FDec(296, 2), FInt(10), FDec(297, 2),
    FZero, FDec(1, 11), DefaultEpsilon, FDec(5, 1),
    FDec(19, 1), FNextUp(FDec(19, 1)),
    FDiv(FInt(296), FInt(27)), FNextUp(FDiv(FInt(296), FInt(33))),
    FInt(-10), FDec(-296, 2) }

\* no switch call made yet
SwitchIdle ==
  /\ residual_arg = None
  /\ result = None
  /\ resonance = None
  /\ warned = FALSE
  /\ prev = NoTest

\* no metric call made yet
MetricIdle ==
  /\ chi_squared = NoCall
  /\ residual_norm = NoCall

NoMetricInput ==
  /\ self_data = NoArray
  /\ model_arg = NoArray
  /\ self_errors = NoErrors

\* result = switch(residual)
CallSwitch(r) ==
  /\ pc = "ready"
  /\ prev' = [residual |-> residual_arg, result |-> result, resonance |-> resonance]
  /\ residual_arg' = r
  /\ result' = switch_call(switch, r)
  /\ warned' = switch_call_divides_by_zero(switch, r)
  /\ resonance' = None
  /\ pc' = "called"
  /\ UNCHANGED <<switch, metric_vars, scanner_vars, extra_vars>>

\* resonance = switch.resonance_strength(residual)
CallStrength ==
  /\ pc = "called"
  /\ resonance' = resonance_strength(switch, residual_arg)
  /\ pc' = "ready"
  /\ UNCHANGED <<switch, residual_arg, result, warned, prev, metric_vars, scanner_vars, extra_vars>>

NextSwitch ==
  \/ \E r \in Residuals : CallSwitch(r)
  \/ CallStrength

InitSwitch ==
  /\ switch \in Switches
  /\ SwitchIdle
  /\ NoMetricInput
  /\ MetricIdle
  /\ NoScanner
  /\ NoAnalyzer
  /\ NoMain
  /\ NoSampler
  /\ pc = "ready"

SpecSwitch == InitSwitch /\ [][NextSwitch]_vars

(***************************************************************************)
(* The residual metric on its own: compute_chi_squared and                 *)
(* compute_residual_norm called with the same data, model and errors.      *)
(***************************************************************************)
MaxLen == 3

V1(a) == Vector(<<a>>)

V2(a, b) == Vector(<<a, b>>)

V3(a, b, c) == Vector(<<a, b, c>>)

V4(a, b, c, d) == Vector(<<a, b, c, d>>)

UpToMaxLen(arrays) == {a \in arrays : Size(a) <= MaxLen}

\* observations: np.array([4.0]) of test_scanner, and longer ones
DataArrays ==
  UpToMaxLen({ V1(FInt(4)), V2(FInt(1), FInt(2)), V2(FInt(4), FInt(5)),
               V3(FInt(1), FInt(2), FInt(3)),
               V4(FInt(1), FInt(2), FInt(3), FInt(4)) })

\* predictions: scalars (model_func of test_scanner returns x**2), the
\* 1-item np.array([x**2]) of example_notebook.py, equal-length, shorter,
\* longer and empty arrays
ModelArrays ==
  UpToMaxLen({ Scalar(FInt(4)), Scalar(FDec(225, 2)), V1(FInt(4)), V1(FInt(3)),
               V2(FInt(1), FInt(2)), V2(FZero, FInt(1)), V2(FInt(2), FInt(4)),
               V3(FInt(1), FInt(2), FInt(3)), V3(FDec(15, 1), FZero, FInt(5)),
               Vector(<< >>),
               V4(FInt(2), FInt(2), FInt(2), FInt(2)) })

\* uncertainties: None, a scalar, arrays of each length with positive
\* items, and arrays with a zero or a negative item
ErrorArrays ==
  {NoErrors} \cup
  UpToMaxLen({ Scalar(FInt(2)), V1(FDec(5, 1)), V1(FInt(3)),
               V1(FZero), V1(FInt(-2)), V2(FZero, FInt(2)), V2(FInt(3), FInt(-3)),
               V2(FDec(5, 1), FInt(2)), V2(FInt(3), FInt(3)),
               V3(FInt(1), FDec(5, 1), FInt(3)),
               V4(FInt(1), FInt(1), FInt(3), FDec(1, 1)) })

InitMetric ==
  /\ switch = DefaultSwitch
  /\ SwitchIdle
  /\ self_data \in DataArrays
  /\ model_arg \in ModelArrays
  /\ self_errors \in ErrorArrays
  /\ MetricIdle
  /\ NoScanner
  /\ NoAnalyzer
  /\ NoMain
  /\ NoSampler
  /\ pc = "ready"

\* chi_squared = compute_chi_squared(data, model, errors)
CallChiSquared ==
  /\ pc = "ready"
  /\ chi_squared' = compute_chi_squared(self_data, model_arg, self_errors)
  /\ pc' = "chi_squared"
  /\ UNCHANGED <<switch_vars, self_data, model_arg, self_errors, residual_norm, scanner_vars, extra_vars>>

\* residual_norm = compute_residual_norm(data, model, errors)
CallResidualNorm ==
  /\ pc = "chi_squared"
  /\ residual_norm' = compute_residual_norm(self_data, model_arg, self_errors)
  /\ pc' = "residual_norm"
  /\ UNCHANGED <<switch_vars, self_data, model_arg, self_errors, chi_squared, scanner_vars, extra_vars>>

NextMetric == CallChiSquared \/ CallResidualNorm

SpecMetric == InitMetric /\ [][NextMetric]_vars

(***************************************************************************)
(* The scanner: a LatencyFreeScanner is built, then scan_1d, scan_2d,      *)
(* find_manifold and analyze_geometry are called on it in any order, any   *)
(* number of times.                                                        *)
(***************************************************************************)
MaxPoints == 3

\* the scanner of test_scanner (x**2 against np.array([4.0]), beta = 296,
\* threshold = 1.0), and the same with the threshold of test_switch; the
\* scanner of example_notebook.py with a crossing on the grid (beta = 3: the
\* residual 3 at x = 1 has resonance 1.0); a two-parameter scanner with
\* uncertainties; scanners whose callable raises at some grid points, the
\* second with a switch no grid point passes
Scanners ==
  { LatencyFreeScanner("square", V1(FInt(4)), NoErrors, DefaultSwitch),
    LatencyFreeScanner("square", V1(FInt(4)), NoErrors, TestSwitch),
    LatencyFreeScanner("square_array", V1(FInt(4)), NoErrors,
                       BesemerSwitch(FInt(3), FInt(1), DefaultEpsilon)),
    LatencyFreeScanner("pair", V2(FInt(1), FInt(2)), V2(FDec(5, 1), FInt(2)),
                       DefaultSwitch),
    LatencyFreeScanner("checked_square", V1(FInt(4)), NoErrors, DefaultSwitch),
    LatencyFreeScanner("checked_pair", V2(FInt(1), FInt(2)), NoErrors,
                       BesemerSwitch(FInt(1), FInt(100), DefaultEpsilon)) }

\* scan_1d over (0, 5), the range of test_scanner, and over (1, 2)
Ranges1D == { <<FInt(0), FInt(5)>>, <<FInt(1), FInt(2)>> }

\* scan_2d over (0, 600) x (1, 3)
Ranges2D == { <<<<FInt(0), FInt(600)>>, <<FInt(1), FInt(3)>>>> }

\* n_points: negative, zero, one and more
Resolutions == -1..MaxPoints

ScanCalls ==
  { [call |-> "scan_1d", param_range |-> r, n_points |-> n] :
      r \in Ranges1D, n \in Resolutions }
  \cup
  { [call |-> "scan_2d", param1_range |-> r[1], param2_range |-> r[2],
     n_points |-> <<n1, n2>>] :
      r \in Ranges2D, n1 \in Resolutions, n2 \in Resolutions }

\* what a scan call on a scanner returns or raises.  A scan reads self and
\* its arguments only, so one table holds every scan of the model.
ScanOutcome ==
  [self \in Scanners |->
     [c \in ScanCalls |->
        IF c.call = "scan_1d"
        THEN scan_1d(self, c.param_range, c.n_points)
        ELSE scan_2d(self, c.param1_range, c.param2_range, c.n_points)]]

Self == LatencyFreeScanner(self_model_func, self_data, self_errors, switch)

\* LatencyFreeScanner.__init__, for each scanner of Scanners
Init ==
  /\ \E self \in Scanners :
       /\ self_model_func = self.model_func
       /\ self_data = self.data
       /\ self_errors = self.errors
       /\ switch = self.switch
  /\ model_arg = NoArray
  /\ SwitchIdle
  /\ MetricIdle
  /\ grid_points = <<NoField, NoField>>
  /\ switch_values = NoField
  /\ resonance_values = NoField
  /\ returned = NoScan
  /\ repeated = "first"
  /\ NoAnalyzer
  /\ NoMain
  /\ NoSampler
  /\ pc = "ready"

\* a variant in which a call returns what the call before it returned
CallReturnsStale(c, out) ==
  /\ returned' = [call |-> c, out |-> IF returned = NoScan THEN out ELSE returned.out]
  /\ repeated' = IF returned = NoScan \/ returned.call # c THEN "first" ELSE "same"

\* the call and its outcome reach the caller
CallReturns(c, out) ==
  /\ returned' = [call |-> c, out |-> out]
  /\ repeated' = IF returned = NoScan \/ returned.call # c THEN "first"
                 ELSE IF returned.out = out THEN "same" ELSE "differs"

\* params, switches, resonances = scanner.scan_1d(param_range, n_points)
Scan1D(c) ==
  /\ c.call = "scan_1d"
  /\ CallReturns(c, ScanOutcome[Self][c])
  /\ UNCHANGED <<switch_vars, metric_vars, extra_vars, pc, self_model_func,
                 grid_points, switch_values, resonance_values>>

\* a variant that stores the fields of a scan_2d and keeps the grid it had
Scan2DReturnsPartly(c, out) ==
  /\ CallReturns(c, out)
  /\ IF out.raises = "none"
     THEN /\ switch_values' = out.switches
          /\ resonance_values' = out.resonances
          /\ UNCHANGED grid_points
     ELSE UNCHANGED <<grid_points, switch_values, resonance_values>>

\* a variant in which a scan_2d that raises forgets the scan before it
Scan2DReturnsClearing(c, out) ==
  /\ CallReturns(c, out)
  /\ IF out.raises = "none"
     THEN /\ grid_points' = <<out.grid1, out.grid2>>
          /\ switch_values' = out.switches
          /\ resonance_values' = out.resonances
     ELSE /\ grid_points' = <<NoField, NoField>>
          /\ switch_values' = NoField
          /\ resonance_values' = NoField

\* grid1, grid2, switches, resonances = scanner.scan_2d(param1_range,
\* param2_range, n_points); a scan that raises leaves self as it was
Scan2DReturns(c, out) ==
  /\ CallReturns(c, out)
  /\ IF out.raises = "none"
     THEN /\ grid_points' = <<out.grid1, out.grid2>>
          /\ switch_values' = out.switches
          /\ resonance_values' = out.resonances
     ELSE UNCHANGED <<grid_points, switch_values, resonance_values>>

Scan2D(c) ==
  /\ c.call = "scan_2d"
  /\ Scan2DReturns(c, ScanOutcome[Self][c])
  /\ UNCHANGED <<switch_vars, metric_vars, extra_vars, pc, self_model_func>>

\* manifold_param1, manifold_param2 = scanner.find_manifold()
FindManifoldCall == [call |-> "find_manifold"]

FindManifold ==
  /\ CallReturns(FindManifoldCall, find_manifold(switch_values, grid_points))
  /\ UNCHANGED <<switch_vars, metric_vars, extra_vars, pc, self_model_func,
                 grid_points, switch_values, resonance_values>>

\* geometry = scanner.analyze_geometry()
AnalyzeGeometryCall == [call |-> "analyze_geometry"]

AnalyzeGeometry ==
  /\ CallReturns(AnalyzeGeometryCall, analyze_geometry(switch_values, grid_points))
  /\ UNCHANGED <<switch_vars, metric_vars, extra_vars, pc, self_model_func,
                 grid_points, switch_values, resonance_values>>

Next ==
  \/ \E c \in ScanCalls : Scan1D(c)
  \/ \E c \in ScanCalls : Scan2D(c)
  \/ FindManifold
  \/ AnalyzeGeometry

Spec == Init /\ [][Next]_vars

(***************************************************************************)
(* The dipole analysis: a HubbleDipoleAnalyzer scans the Planck context,   *)
(* then the supernova context, then looks for the dipole with the grid of  *)
(* the Planck scan, as analyze_hubble_tension does.  The models of the two *)
(* contexts are astropy's, so a scan may return any field of 0.0 and 1.0.  *)
(***************************************************************************)
\* the largest number of cells of a grid
MaxCells == 4

DipoleResolutions ==
  { n \in { <<n1, n2>> : n1 \in 0..MaxCells, n2 \in 0..MaxCells } :
      n[1] * n[2] <= MaxCells }

\* H0_range=(60, 80), Om0_range=(0.2, 0.4), the defaults
DefaultH0Range == <<FInt(60), FInt(80)>>

DefaultOm0Range == <<FDec(2, 1), FDec(4, 1)>>

\* the scans of a context: over the default ranges, and over H0 in (60, 70)
ContextCalls ==
  { [H0_range |-> h, Om0_range |-> DefaultOm0Range, n_points |-> n] :
      h \in {DefaultH0Range, <<FInt(60), FInt(70)>>}, n \in DipoleResolutions }

\* the grids of each of them
ContextGrids ==
  [c \in ContextCalls |->
     context_grids(linspace(c.H0_range[1], c.H0_range[2], c.n_points[1]),
                   linspace(c.Om0_range[1], c.Om0_range[2], c.n_points[2]))]

\* the fields a scan of n_points can return, by number
FieldsOf(n_points) == 0..(Pow2(n_points[1] * n_points[2]) - 1)

\* grid_H0_p, grid_Om0_p, switches_p, resonances_p =
\* analyzer.scan_planck_context(n_points=n_points)
ScanPlanckContext(c, bits) ==
  /\ pc = "ready"
  /\ c.H0_range = DefaultH0Range
  /\ planck_scan' = context_scan(ContextGrids[c].grid_H0, ContextGrids[c].grid_Om0,
                                 SwitchField(ContextGrids[c].grid_H0, bits))
  /\ pc' = "planck scanned"
  /\ UNCHANGED <<switch_vars, metric_vars, scanner_vars, supernova_scan, dipole,
                 main_vars, mcmc_vars>>

\* grid_H0_s, grid_Om0_s, switches_s, resonances_s =
\* analyzer.scan_supernova_context(H0_range, Om0_range, n_points)
ScanSupernovaContext(c, bits) ==
  /\ pc = "planck scanned"
  /\ supernova_scan' = context_scan(ContextGrids[c].grid_H0, ContextGrids[c].grid_Om0,
                                    SwitchField(ContextGrids[c].grid_H0, bits))
  /\ pc' = "supernova scanned"
  /\ UNCHANGED <<switch_vars, metric_vars, scanner_vars, planck_scan, dipole,
                 main_vars, mcmc_vars>>

\* dipole = analyzer.find_dipole_structure(switches_p, switches_s,
\* grid_H0_p, grid_Om0_p)
FindDipoleStructure ==
  /\ pc = "supernova scanned"
  /\ dipole' = find_dipole_structure(planck_scan.switches, supernova_scan.switches,
                                     planck_scan.grid_H0, planck_scan.grid_Om0)
  /\ pc' = "dipole found"
  /\ UNCHANGED <<switch_vars, metric_vars, scanner_vars, planck_scan,
                 supernova_scan, main_vars, mcmc_vars>>

InitDipole ==
  /\ switch = DefaultSwitch
  /\ SwitchIdle
  /\ NoMetricInput
  /\ MetricIdle
  /\ NoScanner
  /\ NoAnalyzer
  /\ NoMain
  /\ NoSampler
  /\ pc = "ready"

NextDipole ==
  \/ \E c \in ContextCalls : \E bits \in FieldsOf(c.n_points) : ScanPlanckContext(c, bits)
  \/ \E c \in ContextCalls : \E bits \in FieldsOf(c.n_points) : ScanSupernovaContext(c, bits)
  \/ FindDipoleStructure

SpecDipole == InitDipole /\ [][NextDipole]_vars

(***************************************************************************)
(* src/main.py: main() parses the command line and starts                  *)
(* analyze_hubble_tension of src/hubble_dipole.py, which tests the two     *)
(* poles and scans the two contexts.  What is kept of each stage is the    *)
(* switch it builds and what that switch returns for one residual of the   *)
(* stage (the models and the data are astropy's and the data loader's).    *)
(***************************************************************************)
\* args = parser.parse_args(): --beta, --threshold and --resolution
parse_args(beta, threshold, resolution) ==
  [beta |-> beta, threshold |-> threshold, resolution |-> resolution]

\* results = analyze_hubble_tension(beta=args.beta, n_points=(args.resolution,
\* args.resolution)); analyzer = HubbleDipoleAnalyzer(planck, supernova,
\* beta=beta) keeps self.beta = beta
analyze_hubble_tension_start(beta, n_points) ==
  [beta |-> beta, n_points |-> n_points]

\* LatencyFreeScanner.__init__(model_func, data, errors=None, beta=296,
\* threshold=1.0): self.switch = BesemerSwitch(beta=beta, threshold=threshold)
scanner_switch(beta, threshold) == BesemerSwitch(beta, threshold, DefaultEpsilon)

\* scan_planck_context and scan_supernova_context: LatencyFreeScanner(
\* model_func=..., data=data, errors=errors, beta=self.beta)
context_switch(self_beta) == scanner_switch(self_beta, FInt(1))

\* test_pole_resonance: BesemerSwitch(beta=self.beta)
pole_switch(self_beta) == BesemerSwitch(self_beta, FInt(1), DefaultEpsilon)

\* a switch at work on a residual
Switched(sw, residual) ==
  [switch |-> sw, residual |-> residual, result |-> switch_call(sw, residual)]

\* the command lines: --beta 296 (the default) and 100; --threshold 1.0
\* (the default), 0.5, 100 and 1000; --resolution 100 (the default) and 2
BetaArgs == {FInt(296), FInt(100)}

ThresholdArgs == {FInt(1), FDec(5, 1), FInt(100), FInt(1000)}

ResolutionArgs == {100, 2}

\* residuals of a pole or of a grid point
MainResiduals == {FDec(5, 1), FInt(150)}

ParseArgs(beta, threshold, resolution) ==
  /\ pc = "ready"
  /\ main_args' = parse_args(beta, threshold, resolution)
  /\ pc' = "parsed"
  /\ UNCHANGED <<switch_vars, metric_vars, scanner_vars, dipole_vars, analysis,
                 mcmc_vars>>

AnalyzeHubbleTension ==
  /\ pc = "parsed"
  /\ analysis' = analyze_hubble_tension_start(
                   main_args.beta, <<main_args.resolution, main_args.resolution>>)
  /\ pc' = "analyzer built"
  /\ UNCHANGED <<switch_vars, metric_vars, scanner_vars, dipole_vars, main_args,
                 mcmc_vars>>

\* pole_test = analyzer.test_pole_resonance()
TestPoleResonance(planck_residual, sn_residual) ==
  /\ pc = "analyzer built"
  /\ analysis' = analysis @@
       [planck_pole_test |-> Switched(pole_switch(analysis.beta), planck_residual),
        sn_pole_test     |-> Switched(pole_switch(analysis.beta), sn_residual)]
  /\ pc' = "poles tested"
  /\ UNCHANGED <<switch_vars, metric_vars, scanner_vars, dipole_vars, main_args,
                 mcmc_vars>>

\* analyzer.scan_planck_context(H0_range=(60, 80), Om0_range=(0.2, 0.4),
\* n_points=n_points), at one of its grid points
PlanckContextScanned(residual) ==
  /\ pc = "poles tested"
  /\ analysis' = analysis @@
       [planck_point |-> Switched(context_switch(analysis.beta), residual)]
  /\ pc' = "planck context scanned"
  /\ UNCHANGED <<switch_vars, metric_vars, scanner_vars, dipole_vars, main_args,
                 mcmc_vars>>

\* analyzer.scan_supernova_context(...), at one of its grid points
SupernovaContextScanned(residual) ==
  /\ pc = "planck context scanned"
  /\ analysis' = analysis @@
       [supernova_point |-> Switched(context_switch(analysis.beta), residual)]
  /\ pc' = "supernova context scanned"
  /\ UNCHANGED <<switch_vars, metric_vars, scanner_vars, dipole_vars, main_args,
                 mcmc_vars>>

InitMain ==
  /\ switch = DefaultSwitch
  /\ SwitchIdle
  /\ NoMetricInput
  /\ MetricIdle
  /\ NoScanner
  /\ NoAnalyzer
  /\ NoMain
  /\ NoSampler
  /\ pc = "ready"

NextMain ==
  \/ \E beta \in BetaArgs, threshold \in ThresholdArgs, resolution \in ResolutionArgs :
       ParseArgs(beta, threshold, resolution)
  \/ AnalyzeHubbleTension
  \/ \E planck_residual \in MainResiduals, sn_residual \in MainResiduals :
       TestPoleResonance(planck_residual, sn_residual)
  \/ \E residual \in MainResiduals : PlanckContextScanned(residual)
  \/ \E residual \in MainResiduals : SupernovaContextScanned(residual)

SpecMain == InitMain /\ [][NextMain]_vars

(***************************************************************************)
(* src/mcmc_comparison.py: ClassicalMCMC.metropolis_hastings.  A point is  *)
(* <<H0, Om0>>.  self.data.compute_chi_squared is the data object's: it    *)
(* may return any float, NaN and inf included.  A step of the loop draws   *)
(* the noise of the proposal and the uniform number of the acceptance.     *)
(***************************************************************************)
\* the bounds of the prior: 60 <= H0 <= 80 and 0.2 <= Om0 <= 0.4
H0Bounds == <<FInt(60), FInt(80)>>

Om0Bounds == <<FDec(2, 1), FDec(4, 1)>>

MinusHalf == FDec(-5, 1)

\* if H0 < 60 or H0 > 80 or Om0 < 0.2 or Om0 > 0.4: return -np.inf
out_of_bounds(params) ==
  \/ FLt(params[1], H0Bounds[1])
  \/ FGt(params[1], H0Bounds[2])
  \/ FLt(params[2], Om0Bounds[1])
  \/ FGt(params[2], Om0Bounds[2])

\* log_likelihood(params): -0.5 * chi2 within the bounds
log_likelihood(params, chi2) ==
  IF out_of_bounds(params) THEN FInf(1) ELSE FMul(MinusHalf, chi2)

\* 60 <= H0 <= 80 and 0.2 <= Om0 <= 0.4
within_prior(params) ==
  /\ FLe(H0Bounds[1], params[1])
  /\ FLe(params[1], H0Bounds[2])
  /\ FLe(Om0Bounds[1], params[2])
  /\ FLe(params[2], Om0Bounds[2])

\* log_prior(params): flat within the bounds
log_prior(params) == IF within_prior(params) THEN FZero ELSE FInf(1)

\* lp = self.log_prior(params); -inf where lp is not finite
log_posterior_of(lp, params, chi2) ==
  IF lp.k # "fin" THEN FInf(1) ELSE FAdd(lp, log_likelihood(params, chi2))

log_posterior(params, chi2) == log_posterior_of(log_prior(params), params, chi2)

\* a variant that accepts unless the proposal is known to be worse
accepts_unless_worse(log_ratio, below) ==
  IF log_ratio.k = "nan" THEN TRUE
  ELSE IF FGt(log_ratio, FZero) THEN TRUE
  ELSE IF FIsZero(log_ratio) THEN TRUE
  ELSE IF log_ratio.k = "inf" THEN FALSE
  ELSE below

\* log_ratio > 0 or np.random.random() < np.exp(log_ratio): the uniform
\* number is in [0, 1); exp is NaN of NaN, 0 of -inf, 1 of 0 and between 0
\* and 1 of a negative number, where below says whether the number drawn
\* is less
accepts(log_ratio, below) ==
  IF log_ratio.k = "nan" THEN FALSE
  ELSE IF FGt(log_ratio, FZero) THEN TRUE
  ELSE IF FIsZero(log_ratio) THEN TRUE
  ELSE IF log_ratio.k = "inf" THEN FALSE
  ELSE below

\* chain = np.zeros((self.n_steps, 2)); chain[0] = start_params
start_chain(n_steps, start_params) ==
  Items([row \in 1..n_steps |->
           IF row = 1 THEN start_params ELSE <<FZero, FZero>>])

\* proposal = chain[i-1] + np.random.normal(0, proposal_std, size=2)
propose(current, noise) == <<FAdd(current[1], noise[1]), FAdd(current[2], noise[2])>>

\* the longest chain
MaxSteps == 3

\* start points within the bounds (two of them on the bounds) and outside
StartParams ==
  { <<FInt(60), FDec(2, 1)>>, <<FInt(70), FDec(3, 1)>>, <<FInt(80), FDec(4, 1)>>,
    <<FInt(59), FDec(3, 1)>>, <<FInt(70), FDec(5, 1)>> }

\* what np.random.normal draws: small steps, none, and steps that leave the
\* bounds from anywhere within
Noises ==
  { <<FDec(5, 1), FDec(1, 2)>>, <<FZero, FZero>>, <<FDec(-5, 1), FDec(-1, 2)>>,
    <<FInt(30), FZero>>, <<FZero, FDec(-3, 1)>> }

\* what compute_chi_squared returns
ChiSquares == {FZero, FInt(2), FInf(0), FNaN}

\* chain, acceptance_rate = self.metropolis_hastings(start_params), up to
\* the loop; chain[0] of an empty chain is numpy's IndexError
MetropolisHastings(n_steps, start_params, chi2) ==
  /\ pc = "ready"
  /\ self_n_steps' = n_steps
  /\ IF n_steps = 0
     THEN /\ pc' = "IndexError"
          /\ UNCHANGED <<chain, step_i, current_log_prob>>
     ELSE /\ chain' = start_chain(n_steps, start_params)
          /\ current_log_prob' = log_posterior(start_params, chi2)
          /\ step_i' = 1
          /\ pc' = "sampling"
  /\ UNCHANGED <<switch_vars, metric_vars, scanner_vars, dipole_vars, main_vars,
                 proposal, n_accepted, acceptance_rate>>

\* one pass of the loop, with the proposal and its log posterior at hand
StepWith(proposed, proposal_log_prob, below) ==
  /\ proposal' = proposed
  /\ IF accepts(FSub(proposal_log_prob, current_log_prob), below)
     THEN /\ chain' = [chain EXCEPT ![step_i + 1] = proposed]
          /\ current_log_prob' = proposal_log_prob
          /\ n_accepted' = n_accepted + 1
     ELSE /\ chain' = [chain EXCEPT ![step_i + 1] = chain[step_i]]
          /\ UNCHANGED <<current_log_prob, n_accepted>>

StepFrom(proposed, chi2, below) ==
  StepWith(proposed, log_posterior(proposed, chi2), below)

\* for i in range(1, self.n_steps): ...
Step(noise, chi2, below) ==
  /\ pc = "sampling"
  /\ step_i < self_n_steps
  /\ StepFrom(propose(chain[step_i], noise), chi2, below)
  /\ step_i' = step_i + 1
  /\ UNCHANGED <<switch_vars, metric_vars, scanner_vars, dipole_vars, main_vars,
                 pc, self_n_steps, acceptance_rate>>

\* acceptance_rate = n_accepted / self.n_steps; return chain, acceptance_rate
ReturnChain ==
  /\ pc = "sampling"
  /\ step_i = self_n_steps
  /\ acceptance_rate' = FDiv(FInt(n_accepted), FInt(self_n_steps))
  /\ pc' = "returned"
  /\ UNCHANGED <<switch_vars, metric_vars, scanner_vars, dipole_vars, main_vars,
                 self_n_steps, chain, step_i, proposal, current_log_prob, n_accepted>>

InitMCMC ==
  /\ switch = DefaultSwitch
  /\ SwitchIdle
  /\ NoMetricInput
  /\ MetricIdle
  /\ NoScanner
  /\ NoAnalyzer
  /\ NoMain
  /\ NoSampler
  /\ pc = "ready"

NextMCMC ==
  \/ \E n_steps \in 0..MaxSteps, start_params \in StartParams, chi2 \in ChiSquares :
       MetropolisHastings(n_steps, start_params, chi2)
  \/ \E noise \in Noises, chi2 \in ChiSquares, below \in BOOLEAN :
       Step(noise, chi2, below)
  \/ ReturnChain

SpecMCMC == InitMCMC /\ [][NextMCMC]_vars

(***************************************************************************)
(* Exact arithmetic on float64 values, for stating what the rounded        *)
(* results are compared with: products are kept unrounded.                 *)
(***************************************************************************)
ExMul(a, b) ==
  [k |-> "fin", s |-> (a.s + b.s) % 2, m |-> BigMul(a.m, b.m), e |-> a.e + b.e]

\* 1 + 2^(-n)
ExOnePlus(n) ==
  [k |-> "fin", s |-> 0, m |-> BigAdd(BigShl(<<1>>, n), <<1>>), e |-> 0 - n]

ExLe(a, b) == FCmp(a, b) <= 0

ExLt(a, b) == FCmp(a, b) < 0

Positive(a) == FGt(a, FZero)

Tested == residual_arg # None

\* both calls of the test in progress have returned
TestDone == residual_arg # None /\ resonance # None

\* so have both calls of the test before
PairDone == TestDone /\ prev.residual # None /\ prev.resonance # None

(***************************************************************************)
(* The claims about the switch, under SpecSwitch.                          *)
(***************************************************************************)
\* C1: for every residual (positive, zero, below epsilon, negative) and every
\* configuration with epsilon > 0, switch(residual) is exactly 0 or exactly 1
\* and the call divides by no zero.
C1_SwitchIsBinary ==
  (Tested /\ Positive(switch.epsilon)) =>
    (result \in {FZero, FOne} /\ ~warned)

\* C1 happens: the switch was called with a zero residual and returned 1
C1_Witness ==
  Tested /\ residual_arg = FZero /\ Positive(switch.epsilon) /\ result = FOne /\ ~warned

\* at every index of a scanned field the switch value is 1 exactly where the
\* resonance value is >= threshold, and is heaviside(resonance - threshold)
RECURSIVE SwitchesFollow(_, _, _, _)
SwitchesFollow(switches, resonances, threshold, i) ==
  \/ i > Len(switches)
  \/ /\ switches[i] = FOne <=> FGe(resonances[i], threshold)
     /\ switches[i] = heaviside(FSub(resonances[i], threshold))
     /\ SwitchesFollow(switches, resonances, threshold, i + 1)

RECURSIVE RowsFollow(_, _, _, _)
RowsFollow(switches, resonances, threshold, j) ==
  \/ j > Len(switches)
  \/ /\ SwitchesFollow(switches[j], resonances[j], threshold, 1)
     /\ RowsFollow(switches, resonances, threshold, j + 1)

\* for each switch of the scanners, whether switch(r) = 1 exactly when
\* resonance_strength(r) >= threshold, and switch(r) is
\* heaviside(resonance_strength(r) - threshold), at every residual r of
\* Residuals
SwitchFollowsResonance ==
  [sw \in {self.switch : self \in Scanners} |->
     \A r \in Residuals :
       /\ switch_call(sw, r) = FOne
            <=> FGe(resonance_strength(sw, r), sw.threshold)
       /\ switch_call(sw, r)
            = heaviside(FSub(resonance_strength(sw, r), sw.threshold))]

\* a scan has returned
Scanned(call) ==
  returned # NoScan /\ returned.call.call = call /\ returned.out.raises = "none"

\* C2: switch(r) = 1 if and only if resonance_strength(r) >= threshold, that
\* is switch(r) = heaviside(resonance_strength(r) - threshold), for the
\* residuals of the switch tests and the residuals the scans meet; in what
\* scan_1d and scan_2d return, and in the fields scan_2d caches, the switch
\* value at an index is 1 if and only if the resonance value at that index
\* is >= threshold.
C2_SwitchIffResonance ==
  /\ SwitchFollowsResonance[switch]
  /\ Scanned("scan_1d") =>
       SwitchesFollow(returned.out.switches.item, returned.out.resonances.item,
                      switch.threshold, 1)
  /\ Scanned("scan_2d") =>
       RowsFollow(returned.out.switches.item, returned.out.resonances.item,
                  switch.threshold, 1)
  /\ switch_values # NoField =>
       RowsFollow(switch_values.item, resonance_values.item, switch.threshold, 1)

\* C2 happens: scan_1d returned a point whose resonance is the threshold
\* exactly, with the switch 1 there
C2_Witness ==
  /\ Scanned("scan_1d")
  /\ \E i \in 1..Size(returned.out.switches) :
       /\ returned.out.resonances.item[i] = switch.threshold
       /\ returned.out.switches.item[i] = FOne

\* a float64 in the normal range: finite, with a full significand
IsNormal(a) == a.k = "fin" /\ BigBitLen(a.m) = MantBits

\* C3 as stated: for beta > 0, T > 0 and r > 0, switch(r) = 1 exactly when
\* r <= beta / T, in exact arithmetic: r * T <= beta.
C3_AsStated ==
  (Tested /\ Positive(switch.beta) /\ Positive(switch.threshold) /\ Positive(residual_arg)) =>
    (result = FOne <=> ExLe(ExMul(residual_arg, switch.threshold), switch.beta))

\* C3, amended: for beta > 0, T > 0 and r > 0, with f = max(r, epsilon) the
\* floored residual, switch(r) = 1 whenever f * T <= beta, and, for T in the
\* normal range of float64, switch(r) = 0 whenever f * T >= beta * (1 + 2^-52);
\* between the two the rounding of the float64 quotient beta / f decides.
\* Below the floor f is epsilon, not r.
C3_Crossing ==
  (Tested /\ Positive(switch.beta) /\ Positive(switch.threshold) /\ Positive(residual_arg)) =>
    LET f == FMax(residual_arg, switch.epsilon)
    IN  /\ ExLe(ExMul(f, switch.threshold), switch.beta) => result = FOne
        /\ (IsNormal(switch.threshold)
              /\ ExLe(ExMul(switch.beta, ExOnePlus(52)), ExMul(f, switch.threshold)))
             => result = FZero

\* C3 happens: a residual below the floor of a switch with
\* beta / epsilon < T, at most beta / T, and the switch is 0
C3_Witness ==
  /\ Tested /\ Positive(switch.beta) /\ Positive(residual_arg)
  /\ FLt(residual_arg, switch.epsilon)
  /\ FLt(FDiv(switch.beta, switch.epsilon), switch.threshold)
  /\ ExLe(ExMul(residual_arg, switch.threshold), switch.beta)
  /\ result = FZero

\* C4: with beta = 296 and threshold = 100 the switch returns 1 for the
\* residuals 0.001, 2.0 and 2.96, and 0 for the residuals 2.97 and 10.0.
C4_TestSwitchValues ==
  (Tested /\ switch = TestSwitch) =>
    /\ residual_arg \in {FDec(1, 3), FInt(2), FDec(296, 2)} => result = FOne
    /\ residual_arg \in {FDec(297, 2), FInt(10)} => result = FZero

\* C4 happens: the switch of test_switch was called at the crossing 2.96
C4_Witness ==
  Tested /\ switch = TestSwitch /\ residual_arg = FDec(296, 2) /\ result = FOne

\* C5: for a residual r <= epsilon (zero and negative residuals too),
\* resonance_strength(r) is beta / epsilon exactly.
C5_Floor ==
  (TestDone /\ FLe(residual_arg, switch.epsilon)) =>
    resonance = FDiv(switch.beta, switch.epsilon)

\* C5 happens: a positive residual below the floor, and beta # 0
C5_Witness ==
  /\ TestDone /\ Positive(residual_arg) /\ FLt(residual_arg, switch.epsilon)
  /\ ~FIsZero(switch.beta)
  /\ resonance = FDiv(switch.beta, switch.epsilon)

\* C6 as stated: for beta > 0 and 0 < r1 < r2,
\* resonance_strength(r1) > resonance_strength(r2).
C6_AsStated ==
  (PairDone /\ Positive(switch.beta)
     /\ Positive(prev.residual) /\ FLt(prev.residual, residual_arg)) =>
    FGt(prev.resonance, resonance)

\* C6, amended: for beta > 0 and 0 < r1 < r2, resonance_strength(r1) >=
\* resonance_strength(r2); the two are equal when r2 <= epsilon; and
\* resonance_strength(r1) > resonance_strength(r2) when r1 >= epsilon and
\* r2 >= r1 * (1 + 2^-51), that is when the residuals differ by more than the
\* rounding of the quotient, and resonance_strength(r2) is in the normal
\* range of float64.
C6_Monotone ==
  (PairDone /\ Positive(switch.beta)
     /\ Positive(prev.residual) /\ FLt(prev.residual, residual_arg)) =>
    /\ FGe(prev.resonance, resonance)
    /\ FLe(residual_arg, switch.epsilon) => prev.resonance = resonance
    /\ (FGe(prev.residual, switch.epsilon) /\ IsNormal(resonance)
          /\ ExLe(ExMul(prev.residual, ExOnePlus(51)), residual_arg))
         => FGt(prev.resonance, resonance)

\* C6 happens: two residuals at or above the floor, the second larger, and
\* the resonance strictly smaller
C6_Witness ==
  /\ PairDone /\ Positive(switch.beta)
  /\ FGe(prev.residual, switch.epsilon) /\ FLt(prev.residual, residual_arg)
  /\ FGt(prev.resonance, resonance)

\* C7: the switch called with a negative residual returns what it returns
\* for the absolute value of that residual (the code raises no error).
C7_AsStated ==
  (Tested /\ FLt(residual_arg, FZero) /\ prev.residual = FAbs(residual_arg)) =>
    result = prev.result

(***************************************************************************)
(* The claims about the residual metric, under SpecMetric.                 *)
(***************************************************************************)
RECURSIVE AllPositive(_, _)
AllPositive(items, i) ==
  i > Len(items) \/ (Positive(items[i]) /\ AllPositive(items, i + 1))

\* data and model are 1-d arrays of equal length; errors is None or an
\* array of that length with positive items
ValidMetricInput ==
  /\ ~IsScalar(self_data) /\ model_arg.shape = self_data.shape
  /\ self_errors = NoErrors
       \/ (self_errors.shape = self_data.shape /\ AllPositive(self_errors.item, 1))

BothCalled == pc = "residual_norm"

\* two arrays of different lengths: 1-d arrays of different sizes, or a
\* scalar against a 1-d array of more than one item
DifferentLengths(a, b) ==
  IF IsScalar(a) THEN ~IsScalar(b) /\ Size(b) > 1
  ELSE IF IsScalar(b) THEN Size(a) > 1
  ELSE Size(a) # Size(b)

\* 1 - 2^(-n)
ExOneMinus(n) ==
  [k |-> "fin", s |-> 0, m |-> BigSub(BigShl(<<1>>, n), <<1>>), e |-> 0 - n]

\* C8: for data and model of equal length and positive errors (or none),
\* compute_residual_norm is the float64 square root of what
\* compute_chi_squared returns for the same arguments, so its square is the
\* chi-squared up to the rounding of the root (a relative 2^-51).
C8_NormSquaredIsChiSquared ==
  (BothCalled /\ ValidMetricInput) =>
    /\ chi_squared.raises = "none" /\ residual_norm.raises = "none"
    /\ residual_norm.value = FSqrt(chi_squared.value)
    /\ ExLe(ExMul(chi_squared.value, ExOneMinus(51)),
            ExMul(residual_norm.value, residual_norm.value))
    /\ ExLe(ExMul(residual_norm.value, residual_norm.value),
            ExMul(chi_squared.value, ExOnePlus(51)))

\* C8 happens: weighted residuals whose chi-squared is not a perfect square
C8_Witness ==
  /\ BothCalled /\ ValidMetricInput /\ self_errors # NoErrors /\ Size(self_data) >= 2
  /\ Positive(chi_squared.value)
  /\ FMul(residual_norm.value, residual_norm.value) # chi_squared.value

\* C9: for data and model of equal length and positive errors (or none),
\* compute_residual_norm returns a number >= 0.
C9_NormNonNegative ==
  (BothCalled /\ ValidMetricInput) =>
    (residual_norm.raises = "none" /\ FGe(residual_norm.value, FZero))

\* C9 happens: the model lies above the data at every item, so every
\* residual is negative, and the norm is positive
C9_Witness ==
  /\ BothCalled /\ ValidMetricInput /\ Size(self_data) >= 2
  /\ \A i \in 1..Size(self_data) : FLt(self_data.item[i], model_arg.item[i])
  /\ Positive(residual_norm.value)

\* C10: when data and model, or the errors and the data, have different
\* lengths (a scalar or 1-item model against a longer data vector too),
\* compute_chi_squared and compute_residual_norm raise and return nothing.
C10_AsStated ==
  (BothCalled /\ (DifferentLengths(self_data, model_arg)
                    \/ (self_errors # NoErrors /\ DifferentLengths(self_data, self_errors)))) =>
    (chi_squared.raises # "none" /\ residual_norm.raises # "none")

\* C11: when the errors hold a zero or a negative item (data, model and
\* errors of equal length), compute_residual_norm and compute_chi_squared
\* raise and return no value.
C11_AsStated ==
  (BothCalled /\ ~IsScalar(self_data) /\ model_arg.shape = self_data.shape
     /\ self_errors # NoErrors /\ self_errors.shape = self_data.shape
     /\ ~AllPositive(self_errors.item, 1)) =>
    (chi_squared.raises # "none" /\ residual_norm.raises # "none")

(***************************************************************************)
(* The claims about the scanner, under Spec.  What a claim says of a scan  *)
(* is computed once for each scanner and call, over ScanOutcome; a state   *)
(* satisfies it when the outcome it holds is that of the table.            *)
(***************************************************************************)
\* the last call returned what a scanner built anew returns for it
FromTable ==
  returned.call \in ScanCalls /\ returned.out = ScanOutcome[Self][returned.call]

\* the switch and the resonance of the model evaluated at args, from the
\* functions of besemer_core.py
ResidualAt(self, args) ==
  compute_residual_norm(self.data, model_call(self.model_func, args).value,
                        self.errors).value

SwitchAt(self, args) == switch_call(self.switch, ResidualAt(self, args))

ResonanceAt(self, args) == resonance_strength(self.switch, ResidualAt(self, args))

\* C12: scan_1d(range, n) returns three sequences of length n, and
\* scan_2d(rangeA, rangeB, (nA, nB)) returns grids and fields of shape
\* nA x nB, nA rows and nB columns.
C12_AsStated ==
  /\ Scanned("scan_1d") =>
       /\ Size(returned.out.params) = returned.call.n_points
       /\ Size(returned.out.switches) = returned.call.n_points
       /\ Size(returned.out.resonances) = returned.call.n_points
  /\ Scanned("scan_2d") =>
       /\ returned.out.grid1.shape = returned.call.n_points
       /\ returned.out.grid2.shape = returned.call.n_points
       /\ returned.out.switches.shape = returned.call.n_points
       /\ returned.out.resonances.shape = returned.call.n_points

\* the fields of a 2-d outcome hold, at every index, the switch and the
\* resonance of the model at the parameters the grids hold at that index
CellsFollowGrids(self, out) ==
  /\ out.grid1.shape = out.switches.shape
  /\ out.grid2.shape = out.switches.shape
  /\ out.resonances.shape = out.switches.shape
  /\ \A r \in 1..out.switches.shape[1] : \A c \in 1..out.switches.shape[2] :
       /\ out.switches.item[r][c]
            = SwitchAt(self, <<out.grid1.item[r][c], out.grid2.item[r][c]>>)
       /\ out.resonances.item[r][c]
            = ResonanceAt(self, <<out.grid1.item[r][c], out.grid2.item[r][c]>>)

\* the grids hold the first parameter along the columns and the second
\* along the rows
GridsFollowRanges(c, out) ==
  /\ out.grid1.shape = <<c.n_points[2], c.n_points[1]>>
  /\ \A r \in 1..out.grid1.shape[1] : \A k \in 1..out.grid1.shape[2] :
       /\ out.grid1.item[r][k]
            = linspace(c.param1_range[1], c.param1_range[2], c.n_points[1]).array.item[k]
       /\ out.grid2.item[r][k]
            = linspace(c.param2_range[1], c.param2_range[2], c.n_points[2]).array.item[r]

Scan2DFollowsGrids(self, c, out) ==
  (c.call = "scan_2d" /\ out.raises = "none") =>
    (CellsFollowGrids(self, out) /\ GridsFollowRanges(c, out))

FollowsGrids ==
  [self \in Scanners |->
     [c \in ScanCalls |-> Scan2DFollowsGrids(self, c, ScanOutcome[self][c])]]

\* C13: in what scan_2d returns, switches[r][c] and resonances[r][c] are the
\* switch and the resonance of the model evaluated at (grid1[r][c],
\* grid2[r][c]), the first parameter passed first, at every index, for
\* grids that are not square too.
C13_FieldsFollowGrids ==
  Scanned("scan_2d") => (FromTable /\ FollowsGrids[Self][returned.call])

\* C13 happens: a scan over a grid that is not square returned fields with
\* cells of both switch values
C13_Witness ==
  /\ Scanned("scan_2d")
  /\ returned.call.n_points[1] # returned.call.n_points[2]
  /\ \E r \in 1..returned.out.switches.shape[1] :
       \E c \in 1..returned.out.switches.shape[2] :
         /\ returned.out.switches.item[r][c] = FOne
         /\ returned.out.switches.item[r][(c % returned.out.switches.shape[2]) + 1]
              = FZero

\* every index written once, and as many calls of the model as indexes
WrittenOnce1D(self, out) ==
  /\ out.calls = Size(out.params)
  /\ Len(out.writes) = Size(out.params)
  /\ Size(out.switches) = Size(out.params)
  /\ Size(out.resonances) = Size(out.params)
  /\ \A i \in 1..Size(out.params) :
       /\ out.writes[i] = 1
       /\ out.switches.item[i] = SwitchAt(self, <<out.params.item[i]>>)
       /\ out.resonances.item[i] = ResonanceAt(self, <<out.params.item[i]>>)

WrittenOnce2D(self, out) ==
  /\ out.calls = out.switches.shape[1] * out.switches.shape[2]
  /\ Len(out.writes) = out.switches.shape[1]
  /\ \A r \in 1..out.switches.shape[1] :
       /\ Len(out.writes[r]) = out.switches.shape[2]
       /\ \A c \in 1..out.switches.shape[2] : out.writes[r][c] = 1
  /\ CellsFollowGrids(self, out)

ScanWritesOnce(self, c, out) ==
  out.raises = "none" =>
    IF c.call = "scan_1d" THEN WrittenOnce1D(self, out) ELSE WrittenOnce2D(self, out)

WritesOnce ==
  [self \in Scanners |->
     [c \in ScanCalls |-> ScanWritesOnce(self, c, ScanOutcome[self][c])]]

\* C14: in scan_1d and in scan_2d every cell of the switch and resonance
\* fields is written exactly once, the model is called once for each cell,
\* the value of a cell is that of the model at the cell's own parameters,
\* and no cell is left unwritten, for grids that are not square too.
C14_CellsWrittenOnce ==
  (Scanned("scan_1d") \/ Scanned("scan_2d")) =>
    (FromTable /\ WritesOnce[Self][returned.call])

\* C14 happens: a scan over a grid that is not square filled more than one
\* row and more than one column
C14_Witness ==
  /\ Scanned("scan_2d")
  /\ returned.call.n_points[1] # returned.call.n_points[2]
  /\ returned.out.switches.shape[1] > 1 /\ returned.out.switches.shape[2] > 1
  /\ returned.out.calls = returned.out.switches.shape[1] * returned.out.switches.shape[2]

\* sums of float64 values, unrounded
ExSum(s, am, bm, lo) ==
  [k |-> "fin", s |-> s, m |-> BigAdd(am, bm), e |-> lo]

ExDifference(sa, sb, am, bm, lo, cmp) ==
  IF cmp = 0 THEN FZero
  ELSE IF cmp > 0 THEN [k |-> "fin", s |-> sa, m |-> BigSub(am, bm), e |-> lo]
  ELSE [k |-> "fin", s |-> sb, m |-> BigSub(bm, am), e |-> lo]

ExAligned(a, b, am, bm, lo) ==
  IF a.s = b.s THEN ExSum(a.s, am, bm, lo)
  ELSE ExDifference(a.s, b.s, am, bm, lo, BigCmp(am, bm))

ExAddAt(a, b, lo) == ExAligned(a, b, BigShl(a.m, a.e - lo), BigShl(b.m, b.e - lo), lo)

ExAdd(a, b) ==
  IF a.m = << >> THEN b ELSE IF b.m = << >> THEN a ELSE ExAddAt(a, b, Min2(a.e, b.e))

ExSub(a, b) == ExAdd(a, IF b.m = << >> THEN b ELSE [b EXCEPT !.s = 1 - b.s])

ExAbs(a) == [a EXCEPT !.s = 0]

\* 2^(-n)
ExPow2Neg(n) == [k |-> "fin", s |-> 0, m |-> <<1>>, e |-> 0 - n]

\* item i of n evenly spaced items from lo to hi, up to the rounding of
\* float64: (n - 1) * |p - (lo + (i - 1) * (hi - lo) / (n - 1))|
\*            <= (n - 1) * 2^-50 * max(|lo|, |hi|)
EvenlySpacedAt(lo, hi, n, p, i) ==
  ExLe(ExAbs(ExSub(ExMul(FInt(n - 1), p),
                   ExAdd(ExMul(FInt(n - i), lo), ExMul(FInt(i - 1), hi)))),
       ExMul(ExMul(FInt(n - 1), ExPow2Neg(50)), FMax(FAbs(lo), FAbs(hi))))

InGridOrder(c, out) ==
  /\ Size(out.params) = c.n_points
  /\ out.params.item[1] = c.param_range[1]
  /\ out.params.item[c.n_points] = c.param_range[2]
  /\ \A i \in 1..c.n_points :
       EvenlySpacedAt(c.param_range[1], c.param_range[2], c.n_points,
                      out.params.item[i], i)
  /\ \A i \in 1..(c.n_points - 1) :
       FLt(c.param_range[1], c.param_range[2])
         => FLt(out.params.item[i], out.params.item[i + 1])

Scan1DInGridOrder(self, c, out) ==
  (c.call = "scan_1d" /\ c.n_points >= 2 /\ out.raises = "none") =>
    (InGridOrder(c, out) /\ WrittenOnce1D(self, out))

GridOrder ==
  [self \in Scanners |->
     [c \in ScanCalls |-> Scan1DInGridOrder(self, c, ScanOutcome[self][c])]]

\* C15: scan_1d(range = (lo, hi), n) with n >= 2 returns n parameters that
\* start at lo exactly, end at hi exactly, are evenly spaced up to the
\* rounding of float64, increase when lo < hi, and the switch and resonance
\* at index i are those of the model at parameter i: nothing is reordered,
\* dropped or filtered.
C15_GridOrder ==
  Scanned("scan_1d") => (FromTable /\ GridOrder[Self][returned.call])

\* C15 happens: a scan over three or more points whose step is not a
\* float64 returned switches of both values
C15_Witness ==
  /\ Scanned("scan_1d") /\ returned.call.n_points >= 3
  /\ \E i \in 1..Size(returned.out.switches) : returned.out.switches.item[i] = FOne
  /\ \E i \in 1..Size(returned.out.switches) : returned.out.switches.item[i] = FZero

Points1D(params) == Items([i \in 1..Size(params) |-> <<params.item[i]>>])

Points2D(param1, param2) ==
  Items([k \in 1..(Size(param1) * Size(param2)) |->
           <<param1.item[((k - 1) \div Size(param2)) + 1],
             param2.item[((k - 1) % Size(param2)) + 1]>>])

RECURSIVE FirstRaise(_, _, _)
\* the first pass from k on at which the model raises; 0 if it never does
FirstRaise(self, points, k) ==
  IF k > Len(points) THEN 0
  ELSE IF model_call(self.model_func, points[k]).raises # "none" THEN k
  ELSE FirstRaise(self, points, k + 1)

\* the scan raised what the model raised at pass k, made no call after it
\* and returned no array
StoppedAt(self, points, k, out) ==
  k > 0 =>
    /\ out.raises = model_call(self.model_func, points[k]).raises
    /\ out.calls = k
    /\ out.switches.item = << >> /\ out.resonances.item = << >>

ScanStops(self, c, out) ==
  IF c.call = "scan_1d"
  THEN c.n_points >= 0 =>
         StoppedAt(self,
           Points1D(linspace(c.param_range[1], c.param_range[2], c.n_points).array),
           FirstRaise(self,
             Points1D(linspace(c.param_range[1], c.param_range[2], c.n_points).array), 1),
           out)
  ELSE (c.n_points[1] >= 0 /\ c.n_points[2] >= 0) =>
         StoppedAt(self,
           Points2D(linspace(c.param1_range[1], c.param1_range[2], c.n_points[1]).array,
                    linspace(c.param2_range[1], c.param2_range[2], c.n_points[2]).array),
           FirstRaise(self,
             Points2D(linspace(c.param1_range[1], c.param1_range[2], c.n_points[1]).array,
                      linspace(c.param2_range[1], c.param2_range[2], c.n_points[2]).array), 1),
           out)

Stops ==
  [self \in Scanners |->
     [c \in ScanCalls |-> ScanStops(self, c, ScanOutcome[self][c])]]

\* C17: when the model callable raises at a grid point, scan_1d and scan_2d
\* raise what it raised: no grid point after it is evaluated, no value takes
\* the place of the failed one, and no array is returned.
C17_ScanStops ==
  (returned # NoScan /\ returned.call \in ScanCalls) =>
    (FromTable /\ Stops[Self][returned.call])

\* C17 happens: the model raised at a grid point after the first
C17_Witness ==
  /\ returned # NoScan /\ returned.call \in ScanCalls
  /\ returned.out.raises = "ValueError" /\ returned.out.calls > 1

\* C18: scan_1d with n_points <= 0, and scan_2d with a component of
\* n_points <= 0, raise; they return no empty result.
C18_AsStated ==
  /\ (returned # NoScan /\ returned.call.call = "scan_1d"
        /\ returned.call.n_points <= 0) => returned.out.raises # "none"
  /\ (returned # NoScan /\ returned.call.call = "scan_2d"
        /\ (returned.call.n_points[1] <= 0 \/ returned.call.n_points[2] <= 0))
       => returned.out.raises # "none"

\* C19: the scanner of test_scanner (x**2 against [4.0], beta = 296,
\* threshold = 1.0) scanning [0, 5]: the grid points far from x = 2, the
\* ends x = 0 and x = 5, have switch 0.
C19_AsStated ==
  (Scanned("scan_1d") /\ returned.call.n_points >= 2
     /\ self_model_func = "square" /\ switch = DefaultSwitch
     /\ returned.call.param_range = <<FInt(0), FInt(5)>>) =>
    /\ returned.out.switches.item[1] = FZero
    /\ returned.out.switches.item[returned.call.n_points] = FZero

\* the cells of the cached switch field whose value is 1
ResonantCells ==
  { cell \in (1..switch_values.shape[1]) \X (1..switch_values.shape[2]) :
      switch_values.item[cell[1]][cell[2]] = FOne }

\* the place of a cell among the resonant cells, rows first
PlaceOf(cell) ==
  Cardinality({ other \in ResonantCells :
                  \/ other[1] < cell[1]
                  \/ other[1] = cell[1] /\ other[2] <= cell[2] })

\* find_manifold has been called on a scanner that holds the fields of a
\* scan_2d
ManifoldFound ==
  /\ returned # NoScan
  /\ returned.call = FindManifoldCall
  /\ switch_values # NoField

\* C20: after a scan_2d, find_manifold returns without raising two
\* sequences of equal length, one item for each cell whose switch value is
\* 1 and none for any other cell; the items at one index of the two are
\* grid1[r][c] and grid2[r][c] of the same cell (the cells are taken row
\* after row); when no cell has switch 1 both sequences are empty.
C20_ManifoldIsResonantCells ==
  ManifoldFound =>
    /\ returned.out.raises = "none"
    /\ Size(returned.out.manifold_param1) = Cardinality(ResonantCells)
    /\ Size(returned.out.manifold_param2) = Cardinality(ResonantCells)
    /\ \A cell \in ResonantCells :
         /\ returned.out.manifold_param1.item[PlaceOf(cell)]
              = grid_points[1].item[cell[1]][cell[2]]
         /\ returned.out.manifold_param2.item[PlaceOf(cell)]
              = grid_points[2].item[cell[1]][cell[2]]
    /\ ResonantCells = {} =>
         /\ returned.out.manifold_param1 = Vector(<< >>)
         /\ returned.out.manifold_param2 = Vector(<< >>)

\* find_manifold returned on a grid that is not square and holds more than
\* one cell with switch 1 and a cell with switch 0
C20_Witness ==
  /\ ManifoldFound
  /\ switch_values.shape[1] # switch_values.shape[2]
  /\ Cardinality(ResonantCells) >= 2
  /\ Cardinality(ResonantCells) < switch_values.shape[1] * switch_values.shape[2]
  /\ Size(returned.out.manifold_param1) >= 2

\* find_manifold returned on a grid with cells, none of them with switch 1
C20_NoResonantCell ==
  /\ ManifoldFound
  /\ switch_values.shape[1] * switch_values.shape[2] >= 2
  /\ ResonantCells = {}
  /\ returned.out.raises = "none"

\* analyze_geometry has been called on a scanner that holds the fields of a
\* scan_2d
GeometryAnalyzed ==
  /\ returned # NoScan
  /\ returned.call = AnalyzeGeometryCall
  /\ switch_values # NoField

\* the keys analyze_geometry always sets, and those of the centroid and the
\* standard deviations
CountKeys ==
  {"n_resonant_points", "total_points", "resonance_fraction", "manifold_size"}

MomentKeys == {"param1_mean", "param1_std", "param2_mean", "param2_std"}

IsQuotient(q, n, d) == d # 0 /\ q = FDiv(FInt(n), FInt(d))

\* the counts of an analyze_geometry result are those of the cached field
CountsAgree ==
  /\ returned.out.raises = "none"
  /\ returned.out.result["n_resonant_points"] = Cardinality(ResonantCells)
  /\ returned.out.result["manifold_size"] = Cardinality(ResonantCells)
  /\ returned.out.result["total_points"]
       = switch_values.shape[1] * switch_values.shape[2]
  /\ 0 <= returned.out.result["n_resonant_points"]
  /\ returned.out.result["n_resonant_points"]
       <= returned.out.result["total_points"]

\* C24: in every analyze_geometry result n_resonant_points is the number
\* of cells with switch 1 in the cached field, manifold_size is the same
\* number, total_points is the number of grid cells, 0 <= n_resonant_points
\* <= total_points and resonance_fraction is the quotient n_resonant_points
\* / total_points.
C24_AsStated ==
  GeometryAnalyzed =>
    /\ CountsAgree
    /\ IsQuotient(returned.out.result["resonance_fraction"],
                  returned.out.result["n_resonant_points"],
                  returned.out.result["total_points"])

\* what the code does keep: the counts always agree, the fraction is the
\* quotient on a grid with cells and NaN (0 / 0) on a grid without
C24_FractionOrNaN ==
  GeometryAnalyzed =>
    /\ CountsAgree
    /\ IF returned.out.result["total_points"] > 0
       THEN IsQuotient(returned.out.result["resonance_fraction"],
                       returned.out.result["n_resonant_points"],
                       returned.out.result["total_points"])
       ELSE returned.out.result["resonance_fraction"] = FNaN

\* analyze_geometry returned on a grid with some resonant cells and some
\* that are not
C24_Mixed ==
  /\ GeometryAnalyzed
  /\ Cardinality(ResonantCells) >= 1
  /\ Cardinality(ResonantCells) < switch_values.shape[1] * switch_values.shape[2]


\* what the scanner keeps of its last scan_2d: self.grid_points,
\* self.switch_values, self.resonance_values
Cached == <<grid_points, switch_values, resonance_values>>

NothingCached == <<<<NoField, NoField>>, NoField, NoField>>

\* what a completed scan_2d leaves on the scanner
CachedBy(out) == <<<<out.grid1, out.grid2>>, out.switches, out.resonances>>

\* the three cached items are those of one completed scan_2d of this
\* scanner, or all None
CacheFromOneScan ==
  \/ Cached = NothingCached
  \/ \E c \in ScanCalls :
       /\ c.call = "scan_2d"
       /\ ScanOutcome[Self][c].raises = "none"
       /\ Cached = CachedBy(ScanOutcome[Self][c])

\* the call of a step was a scan_2d that returned
Scan2DCompleted == returned.call.call = "scan_2d" /\ returned.out.raises = "none"

\* the call of a step was a scan_2d that raised
Scan2DFailed == returned.call.call = "scan_2d" /\ returned.out.raises # "none"

\* a call that completes a scan_2d caches what it returns, every other call
\* leaves the three cached items alone
CacheFollowsScan2D ==
  IF Scan2DCompleted' THEN Cached' = CachedBy(returned'.out)
  ELSE UNCHANGED Cached

\* C25: after any sequence of calls the cached grid, switch field and
\* resonance field are those returned by the most recent completed scan_2d
\* (all None before the first): every completed scan_2d replaces the three
\* by what it returns, no other call, scan_1d included, changes any of
\* them, and the three always come from one scan.
C25_CacheIsLastScan2D == []CacheFromOneScan /\ [][CacheFollowsScan2D]_vars

\* a scan_1d has returned on a scanner that holds the fields of a scan_2d
\* with cells
C25_Witness ==
  /\ returned # NoScan
  /\ returned.call.call = "scan_1d"
  /\ returned.out.raises = "none"
  /\ switch_values # NoField
  /\ switch_values.shape[1] * switch_values.shape[2] >= 2
  /\ CacheFromOneScan

\* find_manifold or analyze_geometry was called on a scanner that holds no
\* field
ExtractedWithoutScan ==
  /\ returned # NoScan
  /\ returned.call \in {FindManifoldCall, AnalyzeGeometryCall}
  /\ switch_values = NoField

\* the switch field is None until a scan_2d completes, and never again
\* after one has
FieldSetByScan2D ==
  /\ (switch_values = NoField /\ ~Scan2DCompleted') => switch_values' = NoField
  /\ Scan2DCompleted' => switch_values' # NoField
  /\ switch_values # NoField => switch_values' # NoField

\* C26: as long as no scan_2d has completed on the scanner (freshly built,
\* after scan_1d calls, after scan_2d calls that raised) the switch field
\* is None, and find_manifold and analyze_geometry called in that state
\* raise ValueError and return nothing.
C26_NoScanNoResult ==
  /\ [](ExtractedWithoutScan =>
          /\ returned.out.raises = "ValueError"
          /\ returned.out \in {ManifoldRaises("ValueError"),
                               GeometryRaises("ValueError")})
  /\ [][FieldSetByScan2D]_vars

\* analyze_geometry has raised on a scanner without a field, after a call
\* of another kind or as the first call
C26_Witness ==
  /\ ExtractedWithoutScan
  /\ returned.call = AnalyzeGeometryCall
  /\ returned.out.raises = "ValueError"
  /\ repeated = "first"

\* C27: a scan_2d call that raises (the model callable at a grid point, or
\* np.linspace on a negative resolution) leaves the cached grid, switch
\* field and resonance field as they were before the call, all None or all
\* of the previous completed scan; the field a later find_manifold reads is
\* never a partly filled one.
C27_FailedScanKeepsCache ==
  /\ [][Scan2DFailed' => UNCHANGED Cached]_vars
  /\ [](ManifoldFound => CacheFromOneScan)

\* the model callable raised at a grid point of a scan_2d, after some
\* points had been evaluated, on a scanner that holds an earlier scan
C27_Witness ==
  /\ returned # NoScan
  /\ Scan2DFailed
  /\ returned.out.calls > 1
  /\ switch_values # NoField
  /\ switch_values.shape[1] * switch_values.shape[2] >= 1


(***************************************************************************)
(* The claims about the dipole analysis, under SpecDipole.                 *)
(***************************************************************************)
\* find_dipole_structure has been called
DipoleFound == pc = "dipole found"

\* both fields were scanned on the grid handed to find_dipole_structure
SharedGrid ==
  /\ supernova_scan.grid_H0 = planck_scan.grid_H0
  /\ supernova_scan.grid_Om0 = planck_scan.grid_Om0

\* the cells of a field with switch 1
ResonantIn(field) ==
  { cell \in (1..field.shape[1]) \X (1..field.shape[2]) :
      field.item[cell[1]][cell[2]] = FOne }

RECURSIVE ExTotal(_, _)
\* the exact sum of a grid's values over a set of cells
ExTotal(grid, cells) ==
  IF cells = {} THEN FZero
  ELSE ExAdd(grid.item[(CHOOSE cell \in cells : TRUE)[1]]
                      [(CHOOSE cell \in cells : TRUE)[2]],
             ExTotal(grid, cells \ {CHOOSE cell \in cells : TRUE}))

RECURSIVE Largest(_, _)
\* the largest magnitude of a grid's values over a set of cells
Largest(grid, cells) ==
  IF cells = {} THEN FZero
  ELSE FMax(FAbs(grid.item[(CHOOSE cell \in cells : TRUE)[1]]
                          [(CHOOSE cell \in cells : TRUE)[2]]),
            Largest(grid, cells \ {CHOOSE cell \in cells : TRUE}))

\* p is the mean of the grid's values over the n cells, up to the rounding
\* of float64: |n * p - sum| <= n * 2^-50 * max |value|
IsMeanOver(p, grid, cells) ==
  /\ p.k = "fin"
  /\ ExLe(ExAbs(ExSub(ExMul(FInt(Cardinality(cells)), p), ExTotal(grid, cells))),
          ExMul(ExMul(FInt(Cardinality(cells)), ExPow2Neg(50)), Largest(grid, cells)))

\* the exact a1^2 + a2^2
ExSquares(a1, a2) == ExAdd(ExMul(a1, a1), ExMul(a2, a2))

\* d is sqrt(squares) up to the rounding of float64:
\* d >= 0 and |d^2 - squares| <= 2^-50 * squares
IsRootOf(d, squares) ==
  /\ d.k = "fin"
  /\ d.s = 0
  /\ ExLe(ExAbs(ExSub(ExMul(d, d), squares)), ExMul(ExPow2Neg(50), squares))

\* d is the Euclidean distance of the points a and b
IsDistance(d, a, b) ==
  IsRootOf(d, ExSquares(ExSub(a[1], b[1]), ExSub(a[2], b[2])))

\* a is the pole of a field: the means of the two grids over its resonant
\* cells
IsPoleOf(a, field) ==
  /\ a.k = "tuple"
  /\ Len(a.item) = 2
  /\ IsMeanOver(a.item[1], planck_scan.grid_H0, ResonantIn(field))
  /\ IsMeanOver(a.item[2], planck_scan.grid_Om0, ResonantIn(field))

\* C22: for two switch fields scanned on the same grid, each with a
\* resonant cell, find_dipole_structure returns without raising; each pole
\* is the pair of the means of grid_H0 and of grid_Om0 over the resonant
\* cells of its field; dipole_distance is sqrt((a1 - b1)^2 + (a2 - b2)^2)
\* of the two poles (all up to the rounding of float64); overlap is the
\* number of cells at which both fields are 1, so 0 when no cell is
\* resonant in both.
C22_PolesDistanceOverlap ==
  (/\ DipoleFound
   /\ SharedGrid
   /\ ResonantIn(planck_scan.switches) # {}
   /\ ResonantIn(supernova_scan.switches) # {}) =>
    /\ dipole.raises = "none"
    /\ IsPoleOf(dipole.result.planck_pole, planck_scan.switches)
    /\ IsPoleOf(dipole.result.supernova_pole, supernova_scan.switches)
    /\ IsDistance(dipole.result.dipole_distance,
                  dipole.result.planck_pole.item,
                  dipole.result.supernova_pole.item)
    /\ dipole.result.overlap
         = np_int64(Cardinality(ResonantIn(planck_scan.switches)
                                  \cap ResonantIn(supernova_scan.switches)))
    /\ (ResonantIn(planck_scan.switches) \cap ResonantIn(supernova_scan.switches) = {})
         => dipole.result.overlap.n = 0

\* the dipole of two fields on a grid of two rows and two columns, whose
\* resonant sets share no cell, one of them of two cells; the poles differ
\* in both coordinates
C22_Witness ==
  /\ DipoleFound
  /\ SharedGrid
  /\ planck_scan.switches.shape = <<2, 2>>
  /\ Cardinality(ResonantIn(planck_scan.switches)) = 2
  /\ ResonantIn(supernova_scan.switches) # {}
  /\ ResonantIn(planck_scan.switches) \cap ResonantIn(supernova_scan.switches) = {}
  /\ dipole.raises = "none"
  /\ dipole.result.overlap = np_int64(0)
  /\ dipole.result.planck_pole.item[1] # dipole.result.supernova_pole.item[1]
  /\ dipole.result.planck_pole.item[2] # dipole.result.supernova_pole.item[2]
  /\ FGt(dipole.result.dipole_distance, FOne)

\* C23: find_dipole_structure raises when the two switch fields were
\* scanned on different grids (other ranges or other resolutions): it
\* returns no result in which the grid of one field was applied to the
\* other.
C23_AsStated ==
  (DipoleFound /\ ~SharedGrid) => dipole.raises # "none"

\* what the code does with two grids of different shapes: the supernova
\* field indexes the Planck grid only if it has a resonant cell, and that
\* is numpy's IndexError
C23_OtherShape ==
  (/\ DipoleFound
   /\ supernova_scan.switches.shape # planck_scan.switches.shape) =>
    IF ResonantIn(supernova_scan.switches) # {}
    THEN dipole.raises = "IndexError"
    ELSE dipole.raises = "none"

\* and with two grids of one shape: nothing is raised
C23_OtherRange ==
  (/\ DipoleFound
   /\ supernova_scan.switches.shape = planck_scan.switches.shape) =>
    dipole.raises = "none"

\* the three properties of the dipole
Properties ==
  {dipole.result.dipole_distance, dipole.result.dipole_angle, dipole.result.overlap}

\* C28: for two switch fields on the grid handed over, find_dipole_structure
\* never raises; a pole is None exactly when its field has no resonant
\* cell; dipole_distance, dipole_angle and overlap are all three set when
\* both poles are set (also when the poles coincide and the distance is 0)
\* and all three None otherwise.
C28_PolesAndProperties ==
  (DipoleFound /\ SharedGrid) =>
    /\ dipole.raises = "none"
    /\ dipole.result.planck_pole = None <=> ResonantIn(planck_scan.switches) = {}
    /\ dipole.result.supernova_pole = None <=> ResonantIn(supernova_scan.switches) = {}
    /\ IF dipole.result.planck_pole # None /\ dipole.result.supernova_pole # None
       THEN /\ None \notin Properties
            /\ dipole.result.dipole_distance.k = "fin"
            /\ dipole.result.dipole_angle.k = "degrees"
            /\ dipole.result.overlap.k = "int"
       ELSE Properties = {None}

\* the dipole of two fields with the same resonant cells: the poles
\* coincide, the distance is 0 and the three properties are set
C28_Witness ==
  /\ DipoleFound
  /\ SharedGrid
  /\ planck_scan.switches.shape = <<2, 2>>
  /\ ResonantIn(planck_scan.switches) # {}
  /\ dipole.raises = "none"
  /\ dipole.result.planck_pole # None
  /\ dipole.result.planck_pole = dipole.result.supernova_pole
  /\ dipole.result.dipole_distance = FZero
  /\ None \notin Properties

\* the dipole of a field without a resonant cell and one with: one pole
\* is None, and so are the three properties
C28_OnePole ==
  /\ DipoleFound
  /\ SharedGrid
  /\ ResonantIn(planck_scan.switches) = {}
  /\ ResonantIn(supernova_scan.switches) # {}
  /\ dipole.raises = "none"
  /\ dipole.result.planck_pole = None
  /\ dipole.result.supernova_pole # None
  /\ Properties = {None}

(***************************************************************************)
(* The claim about main(), under SpecMain.                                 *)
(***************************************************************************)
\* the switch of the command line: --beta and --threshold
ChosenSwitch == BesemerSwitch(main_args.beta, main_args.threshold, DefaultEpsilon)

\* the stages of the analysis that have run
StagesRun ==
  DOMAIN analysis \cap {"planck_pole_test", "sn_pole_test", "planck_point",
                        "supernova_point"}

\* C29: the threshold given with --threshold is the threshold of the
\* switch in the pole test, in the Planck scan and in the supernova scan
\* of the analysis main() starts, and what the switch returns at a pole or
\* at a grid point is what the switch of the command line returns there.
C29_AsStated ==
  \A stage \in StagesRun :
    /\ analysis[stage].switch.threshold = main_args.threshold
    /\ analysis[stage].result = switch_call(ChosenSwitch, analysis[stage].residual)

\* what the code does: every stage runs with beta of the command line and
\* the threshold 1.0, whatever --threshold is
C29_ThresholdIsDefault ==
  \A stage \in StagesRun :
    /\ analysis[stage].switch = BesemerSwitch(main_args.beta, FInt(1), DefaultEpsilon)
    /\ analysis[stage].result
         = switch_call(BesemerSwitch(main_args.beta, FInt(1), DefaultEpsilon), analysis[stage].residual)

(***************************************************************************)
(* The claim about the classical sampler, under SpecMCMC.                  *)
(***************************************************************************)
\* a point within the bounds of the prior, the bounds included
InBounds(point) ==
  /\ point[1].k = "fin" /\ point[2].k = "fin"
  /\ FCmp(H0Bounds[1], point[1]) <= 0 /\ FCmp(point[1], H0Bounds[2]) <= 0
  /\ FCmp(Om0Bounds[1], point[2]) <= 0 /\ FCmp(point[2], Om0Bounds[2]) <= 0

\* metropolis_hastings has returned a chain that started within the bounds
ChainReturned == pc = "returned" /\ InBounds(chain[1])

\* the chain returned stays within the bounds, and the rate returned is
\* the quotient of the count of accepted proposals by n_steps, at most
\* (n_steps - 1) / n_steps
ChainWithinBounds ==
  ChainReturned =>
    /\ Len(chain) = self_n_steps
    /\ \A row \in 1..self_n_steps : InBounds(chain[row])
    /\ n_accepted <= self_n_steps - 1
    /\ IsQuotient(acceptance_rate, n_accepted, self_n_steps)
    /\ FLe(acceptance_rate, FDiv(FInt(self_n_steps - 1), FInt(self_n_steps)))

\* a pass of the loop fills row i of the chain, and no other row, with the
\* proposal of the pass or with the row before; it counts the proposal as
\* accepted exactly when it takes it, and it takes none outside the bounds
PassTakesOrKeeps ==
  (pc = "sampling" /\ step_i' = step_i + 1) =>
    /\ \A row \in 1..self_n_steps : row # step_i' => chain'[row] = chain[row]
    /\ n_accepted' \in {n_accepted, n_accepted + 1}
    /\ n_accepted' = n_accepted + 1 =>
         /\ chain'[step_i'] = proposal'
         /\ InBounds(proposal')
    /\ n_accepted' = n_accepted => chain'[step_i'] = chain[step_i]
    /\ ~InBounds(proposal') =>
         /\ chain'[step_i'] = chain[step_i]
         /\ n_accepted' = n_accepted

\* C30: when the start point is within the bounds of the prior, every row
\* of the chain metropolis_hastings returns is within them; each row i >= 1
\* is the proposal of pass i or row i - 1; a proposal outside the bounds is
\* never taken; acceptance_rate is the number of proposals taken divided
\* by n_steps, at most (n_steps - 1) / n_steps.
C30_ChainStaysInBounds == []ChainWithinBounds /\ [][PassTakesOrKeeps]_vars

\* a chain of MaxSteps rows was returned whose last pass proposed a point
\* outside the bounds and kept the row before, after a proposal was taken
C30_Witness ==
  /\ ChainReturned
  /\ self_n_steps = MaxSteps
  /\ n_accepted >= 1
  /\ ~InBounds(proposal)
  /\ chain[MaxSteps] = chain[MaxSteps - 1]
  /\ chain[2] # chain[1]
  /\ FGt(acceptance_rate, FZero)

====
